---------------------------- MODULE Spec2Model ----------------------------
(***************************************************************************)
(* A model of cachex, the two-tier read-through cache of kakkk/gopkg:      *)
(* the envelope (entry) and its binary frame, the JSON codec, the two-tier *)
(* wrapper, the facade with its five source strategies, the single-flight  *)
(* loader coordination and the builder.                                    *)
(*                                                                         *)
(* Granularity: every call of a backing store (Cacher) and every loader    *)
(* call is one atomic step; the code between two such calls runs with the  *)
(* step that follows it.  The clock (time.Now) advances between steps.     *)
(***************************************************************************)
EXTENDS Integers, Sequences, FiniteSets, TLC

(***************************************************************************)
(* Bounds of the model.                                                    *)
(***************************************************************************)
MaxTime == 2
MaxOps == 2

(***************************************************************************)
(* Program constants.                                                      *)
(***************************************************************************)
bytesCreateAtSize == 8
bytesTTLSize == 8
bytesIsNilSize == 1
bytesHeaderSize == bytesCreateAtSize + bytesTTLSize + bytesIsNilSize
NsPerMs == 1000000
ByteBase == 256
Quote == 34

SourceStrategyCacheFirst == 1
SourceStrategySourceFirst == 2
SourceStrategyCacheOnly == 3
SourceStrategySourceOnly == 4
SourceStrategyExpiredBackup == 5

(***************************************************************************)
(* The values a caller or a loader may supply: one-character strings,      *)
(* given by their character code.  0 is the nil *V.                        *)
(***************************************************************************)
NilVal == 0
UserKeys == {"a", "b", "c"}
AllCallers == {1, 2}

(***************************************************************************)
(* Codec (jsonStd): a string marshals to itself between two quotes.        *)
(***************************************************************************)
\* An encoding that leaves the quotes out.
MarshalBare(v) == <<v>>

Marshal(v) == <<Quote, v, Quote>>

UnmarshalOk(data) == Len(data) = 3 /\ data[1] = Quote /\ data[3] = Quote

Unmarshal(data) == IF UnmarshalOk(data) THEN data[2] ELSE NilVal

(***************************************************************************)
(* binary.LittleEndian: n bytes of a signed integer, two's complement      *)
(* (floor division and a non-negative remainder give exactly that).        *)
(***************************************************************************)
RECURSIVE PutUint64(_, _)
PutUint64(x, n) ==
    IF n = 0 THEN <<>> ELSE <<x % ByteBase>> \o PutUint64(x \div ByteBase, n - 1)

\* The unsigned number whose little-endian bytes, from the i-th on, are given.
RECURSIVE UnsignedLE(_, _)
UnsignedLE(bytes, i) ==
    IF i > Len(bytes) THEN 0 ELSE bytes[i] + ByteBase * UnsignedLE(bytes, i + 1)

Complement(s) == [i \in 1..Len(s) |-> (ByteBase - 1) - s[i]]

\* int64(binary.LittleEndian.Uint64(bytes))
Uint64(bytes) ==
    IF bytes[Len(bytes)] >= ByteBase \div 2
       THEN -(UnsignedLE(Complement(bytes), 1) + 1)
       ELSE UnsignedLE(bytes, 1)

(***************************************************************************)
(* entry: the envelope.  ptr = FALSE is the nil *entry.                    *)
(***************************************************************************)
NilEntry ==
    [ptr |-> FALSE, createAt |-> 0, ttl |-> 0, valBytes |-> <<>>, val |-> NilVal, isNil |-> 0]

newEntry(val, ttl, clock) ==
    [ptr |-> TRUE, createAt |-> clock, ttl |-> ttl, valBytes |-> <<>>, val |-> val,
     isNil |-> IF val = NilVal THEN 1 ELSE 0]

\* The entry after Serialize: the marshalled payload is kept in valBytes.
Serialized(e) ==
    IF Len(e.valBytes) = 0 /\ e.val # NilVal
       THEN [e EXCEPT !.valBytes = Marshal(e.val)]
       ELSE e

\* The frame Serialize returns.
Serialize(e) ==
    PutUint64(e.createAt, bytesCreateAtSize) \o PutUint64(e.ttl, bytesTTLSize)
        \o <<e.isNil>> \o Serialized(e).valBytes

\* A reader that takes the payload from the flag byte on.
deserializeEntryFromFlag(bytes) ==
    IF Len(bytes) < 17
       THEN NilEntry
       ELSE [ptr |-> TRUE,
             createAt |-> Uint64(SubSeq(bytes, 1, bytesCreateAtSize)),
             ttl |-> Uint64(SubSeq(bytes, bytesCreateAtSize + 1, bytesCreateAtSize + bytesTTLSize)),
             isNil |-> bytes[bytesCreateAtSize + bytesTTLSize + 1],
             valBytes |-> SubSeq(bytes, bytesHeaderSize, Len(bytes)),
             val |-> NilVal]

deserializeEntry(bytes) ==
    IF Len(bytes) < 17
       THEN NilEntry
       ELSE [ptr |-> TRUE,
             createAt |-> Uint64(SubSeq(bytes, 1, bytesCreateAtSize)),
             ttl |-> Uint64(SubSeq(bytes, bytesCreateAtSize + 1, bytesCreateAtSize + bytesTTLSize)),
             isNil |-> bytes[bytesCreateAtSize + bytesTTLSize + 1],
             valBytes |-> SubSeq(bytes, bytesHeaderSize + 1, Len(bytes)),
             val |-> NilVal]

\* An expiry that falls due at the deadline itself.
IsExpiredAtDeadline(e, clock) ==
    IF e.ttl <= 0 THEN FALSE ELSE e.createAt + (e.ttl \div NsPerMs) <= clock

IsExpired(e, clock) ==
    IF e.ttl <= 0 THEN FALSE ELSE e.createAt + (e.ttl \div NsPerMs) < clock

IsNil(e) == e.isNil = 1

CreateAt(e) == e.createAt

\* Value panics when the payload does not unmarshal.
ValuePanics(e) == e.ptr /\ ~IsNil(e) /\ e.val = NilVal /\ ~UnmarshalOk(e.valBytes)

Value(e) ==
    IF ~e.ptr THEN NilVal
    ELSE IF IsNil(e) THEN NilVal
    ELSE IF e.val # NilVal THEN e.val
    ELSE Unmarshal(e.valBytes)

\* A test that forgets the expiry.
FreshAny(e, clock) == e.ptr

\* A non-nil entry that is not logically expired.
Fresh(e, clock) == e.ptr /\ ~IsExpired(e, clock)


(***************************************************************************)
(* Key derivation.  The user key function is the identity on strings, as   *)
(* in the tests.                                                           *)
(***************************************************************************)
genKeyFn(k) == k

key(c, k) == c.namespace \o ":" \o genKeyFn(k)

(***************************************************************************)
(* The wrapper and the facade objects.  ptr = FALSE is a nil *wrapper.     *)
(***************************************************************************)
NilWrapper == [ptr |-> FALSE, l1 |-> FALSE, l2 |-> FALSE, cacheNil |-> FALSE, delTTL |-> 0]

\* newWrapper leaves cacheNil at its zero value.
newWrapper(hasL1, hasL2, delTTL) ==
    [ptr |-> TRUE, l1 |-> hasL1, l2 |-> hasL2, cacheNil |-> FALSE, delTTL |-> delTTL]

\* The fields of the builder: for a function or an object, whether it is set.
DefaultBuilder ==
    [namespace |-> "default", expireTTL |-> 0, delTTL |-> 0, l1 |-> FALSE, l2 |-> FALSE,
     genKeyFn |-> FALSE, loaderFn |-> FALSE, mLoaderFn |-> FALSE, cacheNil |-> FALSE,
     ss |-> SourceStrategyCacheFirst]

\* A Build that tests for a missing first-level store before anything else.
BuildErrorStoresFirst(bb) ==
    IF bb.l2 /\ ~bb.l1 THEN "l1 cacher not set"
    ELSE IF bb.namespace = "" THEN "namespace not set"
    ELSE IF ~bb.genKeyFn THEN "gen cacheKey fn not set"
    ELSE IF ~bb.loaderFn /\ ~bb.mLoaderFn /\ ~bb.l1 /\ ~bb.l2 THEN "cacher and loader not set"
    ELSE ""

BuildError(bb) ==
    IF bb.namespace = "" THEN "namespace not set"
    ELSE IF ~bb.genKeyFn THEN "gen cacheKey fn not set"
    ELSE IF bb.l2 /\ ~bb.l1 THEN "l1 cacher not set"
    ELSE IF ~bb.loaderFn /\ ~bb.mLoaderFn /\ ~bb.l1 /\ ~bb.l2 THEN "cacher and loader not set"
    ELSE ""

\* The cachex object Build returns when BuildError is "".
Build(bb) ==
    [namespace |-> bb.namespace, expireTTL |-> bb.expireTTL, logger |-> TRUE,
     cache |-> newWrapper(bb.l1, bb.l2, bb.delTTL),
     loaderFn |-> bb.loaderFn, mLoaderFn |-> bb.mLoaderFn, cacheNil |-> bb.cacheNil,
     group |-> "built", ss |-> bb.ss]

\* clone copies neither cache nor logger, and its single-flight groups are new.
clone(c) ==
    [namespace |-> c.namespace, expireTTL |-> c.expireTTL, logger |-> FALSE,
     cache |-> NilWrapper,
     loaderFn |-> c.loaderFn, mLoaderFn |-> c.mLoaderFn, cacheNil |-> c.cacheNil,
     group |-> "clone", ss |-> c.ss]

WithSourceStrategy(c, ss) == [clone(c) EXCEPT !.ss = ss]

NilCx == [clone(Build(DefaultBuilder)) EXCEPT !.group = "none"]

(***************************************************************************)
(* wrapper.latest                                                          *)
(***************************************************************************)
\* A reconciliation that gives nothing when no envelope is fresh.
latestNone(e1, e2) == NilEntry

\* A reconciliation that prefers the second layer.
latestSecond(e1, e2) == IF e2.ptr THEN e2 ELSE e1

latest(e1, e2) ==
    IF ~e1.ptr /\ ~e2.ptr THEN NilEntry
    ELSE IF e1.ptr /\ e2.ptr THEN (IF CreateAt(e1) > CreateAt(e2) THEN e1 ELSE e2)
    ELSE IF e1.ptr THEN e1
    ELSE e2

(***************************************************************************)
(* The state.                                                              *)
(*   now      the clock, in milliseconds (time.Now().UnixMilli())          *)
(*   l1, l2   the two backing stores: storage key -> frame, <<>> when the  *)
(*            store holds nothing under the key                            *)
(*   b        the builder the facade was built from                        *)
(*   env      the run's callers, user keys, key lists, values to set and   *)
(*            the results its loaders may give                             *)
(*   pc, op   each caller's position in its current call and the call's    *)
(*            receiver, arguments, locals and result (levels: the levels   *)
(*            its writes asked getDelTTL for, in order)                    *)
(*   calls    the number of calls started so far                           *)
(*   flights  the calls in flight in the single-flight groups              *)
(*   loads    per user key, how often the point loader was invoked         *)
(*   probe    in a run that exercises one function of the builder, the     *)
(*            envelope or the wrapper: its operand and what it returned    *)
(*   redis    the Redis server of the lock package: key -> value and the   *)
(*            time its expiry falls due                                    *)
(*   table    the rows of the lock table of the database locker            *)
(*   lk       each lock client's position, its context and the Lock        *)
(*            objects it was given                                         *)
(***************************************************************************)
VARIABLES now, l1, l2, b, env, pc, op, calls, flights, loads, probe, redis, table, lk

vars == <<now, l1, l2, b, env, pc, op, calls, flights, loads, probe, redis, table, lk>>

\* What a run of the cache leaves alone, and what a run of the rest does.
aux == <<probe, redis, table, lk>>

cacheVars == <<l1, l2, pc, op, flights, loads>>

NoProbe == [fn |-> "none"]

AuxIdle ==
    /\ probe = NoProbe
    /\ redis = <<>>
    /\ table = {}
    /\ lk = <<>>

StoreKeys == {DefaultBuilder.namespace \o ":" \o genKeyFn(k) : k \in UserKeys}

NoFrame == <<>>

EmptyStore == [k \in StoreKeys |-> NoFrame]

\* A Go map from storage keys to entries; a key it does not hold reads nil.
EmptyMap == [k \in {} |-> NilEntry]

MapGet(m, k) == IF k \in DOMAIN m THEN m[k] ELSE NilEntry

Range(s) == {s[i] : i \in DOMAIN s}

\* The facade Build returned.
cx == Build(b)

CacheStrategies ==
    {SourceStrategyCacheFirst, SourceStrategyCacheOnly, SourceStrategyExpiredBackup}

SourceStrategies == {SourceStrategySourceFirst, SourceStrategySourceOnly}

\* No caller, no task.
NoOne == <<0, 0>>

\* No flight.
NilFlight == [grp |-> <<"", "">>, key |-> "", leader |-> NoOne, n |-> 0]

\* No earlier call.
NoPrev == [kind |-> "none"]

IdleOp ==
    [kind |-> "idle", cx |-> NilCx, key |-> "", val |-> NilVal,
     fromL1 |-> NilEntry, fromL2 |-> NilEntry, fromCache |-> NilEntry,
     fromSource |-> NilEntry, toSet |-> NilEntry,
     loadErr |-> "", err |-> "", res |-> NilVal, waitOn |-> NoOne, flight |-> NilFlight,
     during |-> {}, checkedAt |-> 0,
     readCache |-> FALSE, hit |-> FALSE, invoked |-> FALSE, joined |-> FALSE,
     loadFirst |-> FALSE, backfilled |-> FALSE, wrote |-> {},
     keys |-> <<>>, vals |-> <<>>, mfromL1 |-> EmptyMap, mfromL2 |-> EmptyMap,
     mcache |-> EmptyMap, mmiss |-> <<>>, mhitL2 |-> EmptyMap, mhit |-> EmptyMap,
     toLoad |-> <<>>, tasks |-> <<>>, msrc |-> EmptyMap, mres |-> <<>>,
     prev |-> NoPrev, seq |-> 0, reads |-> <<>>, readAt |-> 0, tried |-> <<>>, failed |-> {},
     faulted |-> {}, removed |-> {}, levels |-> <<>>, ctxDone |-> FALSE]

\* What a loader call may give: a value, absent, or an error.
LoaderOk(v) == [val |-> v, err |-> ""]

LoaderErr == [val |-> NilVal, err |-> "loader fn err"]

\* A loader call that panics with the value "boom".
LoaderPanic == [val |-> NilVal, err |-> "panic:boom"]

\* The error a task of the fan-out returns: the error of c.load, or the one
\* its deferred recover makes of a panic (impl.go line 289-293).
recovered(err) == IF err = LoaderPanic.err THEN "loader fn err: " \o err ELSE err

(***************************************************************************)
(* The backing stores (Cacher).  A store that is not configured is a nil   *)
(* Cacher: reads give nothing and writes do nothing.                       *)
(***************************************************************************)
\* wrapper.get: the entry a store holds under k.
wrapperGet(present, store, k) ==
    IF ~present THEN NilEntry
    ELSE IF store[k] = NoFrame THEN NilEntry
    ELSE deserializeEntry(store[k])

\* What a call of Cacher.Get may give, where the run has faulty stores: the
\* frame ("ok"), an error ("err"), a frame cut below the header ("short"),
\* or a frame cut right after the header, its payload lost ("junk").
ReadOutcomes == {"ok"} \cup (IF env.faults THEN {"err", "short", "junk"} ELSE {})

\* What a call of Cacher.Set, MSet, Delete or MDelete may give: nil, or an
\* error that leaves the store as it was.
WriteOutcomes == {"ok"} \cup (IF env.faults THEN {"err"} ELSE {})

\* wrapper.get when the store's answer is r.
wrapperGetOf(present, store, k, r) ==
    IF r = "ok" THEN wrapperGet(present, store, k)
    ELSE IF r = "err" \/ ~present \/ store[k] = NoFrame THEN NilEntry
    ELSE IF r = "short" THEN deserializeEntry(SubSeq(store[k], 1, bytesHeaderSize - 1))
    ELSE deserializeEntry(SubSeq(store[k], 1, bytesHeaderSize))

\* The faulty answers to a call's store reads so far: r is the answer of the
\* layer's store to the read of k (a cut frame needs a frame to cut).
ReadFault(faulted, present, store, k, layer, r) ==
    IF present /\ (r = "err" \/ (r \in {"short", "junk"} /\ store[k] # NoFrame))
       THEN faulted \cup {<<layer, r>>} ELSE faulted

\* A note the run keeps only where it records the history of the calls.
Note(x, d) == IF env.history THEN x ELSE d

\* A Set that reports the failure of the L1 write only.
wrapperSetErrorL1(failed) == IF "l1" \in failed THEN "cachex: cacher set error" ELSE ""

\* wrapper.Set, line 107-110
wrapperSetError(failed) == IF failed # {} THEN "cachex: cacher set error" ELSE ""

\* wrapper.MSet, line 131-134
wrapperMSetError(failed) == IF failed # {} THEN "cachex: mSet cacher error" ELSE ""

\* A Delete that drops the errors of the stores.
wrapperDeleteErrorDropped(failed) == ""

\* wrapper.Delete, line 168-171
wrapperDeleteError(failed) == IF failed # {} THEN "cachex: cahcer delete error" ELSE ""

\* wrapper.MDelete, line 188-191
wrapperMDeleteError(failed) == IF failed # {} THEN "cachex: cahcer mDelete error" ELSE ""

\* wrapper.set: the store after val is written under k.
wrapperSet(present, store, k, val) ==
    IF ~present \/ ~val.ptr THEN store ELSE [store EXCEPT ![k] = Serialize(val)]

\* wrapper.delete
wrapperDelete(present, store, k) ==
    IF ~present THEN store ELSE [store EXCEPT ![k] = NoFrame]

\* wrapper.mGet: the entries a store holds under the keys ks.
wrapperMGet(present, store, ks) ==
    IF ~present THEN EmptyMap
    ELSE [k \in {x \in Range(ks) : store[x] # NoFrame} |-> deserializeEntry(store[k])]

\* wrapper.mSet keeps an entry unless it is nil, or null with the wrapper's
\* cacheNil off.
mSetKeeps(w, e) == e.ptr /\ ~(IsNil(e) /\ ~w.cacheNil)

\* wrapper.mSet: the store after the entries of kvs are written.
wrapperMSet(w, present, store, kvs) ==
    IF ~present \/ DOMAIN kvs = {} THEN store
    ELSE [k \in StoreKeys |->
            IF k \in DOMAIN kvs /\ mSetKeeps(w, kvs[k]) THEN Serialize(kvs[k]) ELSE store[k]]

\* The storage keys wrapper.mSet writes.
wrapperMSetWrites(w, present, kvs) ==
    IF ~present THEN {} ELSE {k \in DOMAIN kvs : mSetKeeps(w, kvs[k])}

\* wrapper.mDelete
wrapperMDelete(present, store, ks) ==
    IF ~present THEN store ELSE [k \in StoreKeys |-> IF k \in Range(ks) THEN NoFrame ELSE store[k]]

(***************************************************************************)
(* Batch helpers of the facade.                                            *)
(***************************************************************************)
\* gslice.Uniq: the first occurrence of each element, in order.
RECURSIVE Uniq(_)
Uniq(s) ==
    IF s = <<>> THEN <<>>
    ELSE LET r == Uniq(SubSeq(s, 1, Len(s) - 1))
         IN IF s[Len(s)] \in Range(r) THEN r ELSE Append(r, s[Len(s)])

keys(c, ks) == Uniq([i \in DOMAIN ks |-> key(c, ks[i])])

\* strings.Join(elems, ",")
RECURSIVE Join(_)
Join(s) ==
    IF s = <<>> THEN ""
    ELSE IF Len(s) = 1 THEN s[1]
    ELSE s[1] \o "," \o Join(Tail(s))

\* The key of a batch load in the single-flight group.
groupKey(c, ks) == "m" \o Join(keys(c, ks))

RECURSIVE SelectKeys(_, _)
SelectKeys(ks, wanted) ==
    IF ks = <<>> THEN <<>>
    ELSE (IF Head(ks) \in wanted THEN <<Head(ks)>> ELSE <<>>) \o SelectKeys(Tail(ks), wanted)

groupBatchRes(c, ks, vals, clock) ==
    LET got(u) == MapGet(vals, key(c, u))
        users == Range(ks)
    IN [hit |-> [k \in {key(c, u) : u \in {x \in users : Fresh(got(x), clock)}} |-> vals[k]],
        expire |-> SelectKeys(ks, {u \in users : got(u).ptr /\ IsExpired(got(u), clock)}),
        miss |-> SelectKeys(ks, {u \in users : ~got(u).ptr})]

\* A packing that goes over the distinct keys only.
packUniq(c, ks, kvs) == [i \in DOMAIN Uniq(ks) |-> Value(MapGet(kvs, key(c, Uniq(ks)[i])))]

packBatchRes(c, ks, kvs) == [i \in DOMAIN ks |-> Value(MapGet(kvs, key(c, ks[i])))]

packPanics(c, ks, kvs) == \E i \in DOMAIN ks : ValuePanics(MapGet(kvs, key(c, ks[i])))

\* gmap.Merge: the later map wins.
gmapMerge(m1, m2) ==
    [k \in DOMAIN m1 \cup DOMAIN m2 |-> IF k \in DOMAIN m2 THEN m2[k] ELSE m1[k]]

(***************************************************************************)
(* How a call ends.                                                        *)
(***************************************************************************)
Panicked(o) == [pc |-> "done", op |-> [o EXCEPT !.err = "panic"]]

Failed(o, err) == [pc |-> "done", op |-> [o EXCEPT !.err = err, !.res = NilVal]]

\* return e.Value(c.codec)
ReturnValue(o, e) ==
    IF ValuePanics(e) THEN Panicked(o)
    ELSE [pc |-> "done", op |-> [o EXCEPT !.res = Value(e), !.err = ""]]

\* return c.packBatchRes(keys, kvs), nil
ReturnBatch(o, kvs) ==
    IF packPanics(o.cx, o.keys, kvs) THEN Panicked(o)
    ELSE [pc |-> "done", op |-> [o EXCEPT !.mres = packBatchRes(o.cx, o.keys, kvs), !.err = ""]]

\* A set that writes nothing.
setSkipsAll(c, e) == TRUE

\* A set that forgets the null-value policy.
setSkipsNil(c, e) == ~e.ptr

\* cachex.set: nothing is written for a nil entry, or for a null envelope
\* when cacheNil is off.
setSkips(c, e) == ~e.ptr \/ (IsNil(e) /\ ~c.cacheNil)

\* _ = c.set(ctx, cacheKey, fromSource); return fromSource.Value(c.codec)
SetThenReturn(o, e) ==
    IF setSkips(o.cx, e) THEN ReturnValue(o, e)
    ELSE IF ~o.cx.cache.ptr THEN Panicked(o)
    ELSE [pc |-> "setL2", op |-> [o EXCEPT !.toSet = e]]

\* Get: the caller's next position once c.load has returned (src, err).
AfterLoad(o, src, err) ==
    LET c == o.cx
        o1 == [o EXCEPT !.fromSource = src, !.loadErr = err]
    IN IF err # ""
          THEN IF c.ss = SourceStrategySourceFirst
                  THEN (IF c.cache.ptr THEN [pc |-> "readL1", op |-> o1] ELSE Panicked(o1))
               ELSE IF c.ss = SourceStrategyExpiredBackup /\ o.fromCache.ptr
                  THEN ReturnValue(o1, o.fromCache)
               ELSE Failed(o1, err)
          ELSE IF c.ss = SourceStrategySourceOnly
                  THEN ReturnValue(o1, src)
               ELSE SetThenReturn(o1, src)

\* An MGet that, when the load fails, falls back on the fresh envelopes only.
AfterMLoadHits(o, src, err) ==
    LET c == o.cx
        o1 == [o EXCEPT !.msrc = src, !.loadErr = err]
    IN IF err # ""
          THEN IF c.ss = SourceStrategyExpiredBackup
                  THEN ReturnBatch(o1, o.mhit)
                  ELSE Failed(o1, err)
          ELSE IF c.ss \in SourceStrategies
                  THEN ReturnBatch(o1, src)
               ELSE IF ~c.cache.ptr THEN Panicked(o1)
               ELSE [pc |-> "msetL2", op |-> o1]

\* An MGet that falls back on the cache whenever the load fails, under any
\* strategy.
AfterMLoadFallback(o, src, err) ==
    LET c == o.cx
        o1 == [o EXCEPT !.msrc = src, !.loadErr = err]
    IN IF err # ""
          THEN ReturnBatch(o1, o.mcache)
          ELSE IF c.ss \in SourceStrategies
                  THEN ReturnBatch(o1, src)
               ELSE IF ~c.cache.ptr THEN Panicked(o1)
               ELSE [pc |-> "msetL2", op |-> o1]

\* An MGet that, under SourceFirst, writes the loaded envelopes to the cache.
AfterMLoadWrites(o, src, err) ==
    LET c == o.cx
        o1 == [o EXCEPT !.msrc = src, !.loadErr = err]
    IN IF err # ""
          THEN IF c.ss = SourceStrategyExpiredBackup
                  THEN ReturnBatch(o1, o.mcache)
                  ELSE Failed(o1, err)
          ELSE IF c.ss = SourceStrategySourceOnly
                  THEN ReturnBatch(o1, src)
               ELSE IF ~c.cache.ptr THEN Panicked(o1)
               ELSE [pc |-> "msetL2", op |-> o1]

\* MGet: the caller's next position once c.mLoad has returned (src, err).
AfterMLoad(o, src, err) ==
    LET c == o.cx
        o1 == [o EXCEPT !.msrc = src, !.loadErr = err]
    IN IF err # ""
          THEN IF c.ss = SourceStrategyExpiredBackup
                  THEN ReturnBatch(o1, o.mcache)
                  ELSE Failed(o1, err)
          ELSE IF c.ss \in SourceStrategies
                  THEN ReturnBatch(o1, src)
               ELSE IF ~c.cache.ptr THEN Panicked(o1)
               ELSE [pc |-> "msetL2", op |-> o1]

\* A batch load has returned to a Get (a facade with a multiLoader only) or
\* to an MGet.
AfterBatch(o, src, err) ==
    IF o.kind = "Get" THEN AfterLoad(o, MapGet(src, key(o.cx, o.key)), err)
    ELSE AfterMLoad(o, src, err)

(***************************************************************************)
(* Single-flight (singleflight.Group.Do): the first caller for a key runs  *)
(* the function, callers that arrive while it runs wait for its result.    *)
(* A flight is led by caller p itself (<<p, 0>>) or by the i-th task of    *)
(* p's batch fan-out (<<p, i>>).                                           *)
(***************************************************************************)
\* A group that never finds a call in flight.
NoFlight(grp, k) == {}

\* The calls in flight in group grp for key k.
Flight(grp, k) == {f \in flights : f.grp = grp /\ f.key = k}

Unchanged(n) == n @@ [flights |-> flights, loads |-> loads]

NewTask(k) == [key |-> k, st |-> "new", waitOn |-> NoOne, src |-> NilEntry, err |-> ""]

\* c.mLoad(ctx, ks) up to the point where a loader runs or the caller waits.
MLoadEntry(p, o0, ks) ==
    LET c == o0.cx
        o == [o0 EXCEPT !.toLoad = ks]
        grp == <<c.group, "mGroup">>
        gk == groupKey(c, ks)
    IN IF ~c.loaderFn /\ ~c.mLoaderFn
          THEN Unchanged(AfterBatch(o, EmptyMap, "loader not set"))
       ELSE IF ~c.mLoaderFn
          THEN (IF ks = <<>>
                   THEN Unchanged(AfterBatch(o, EmptyMap, ""))
                   ELSE Unchanged([pc |-> "fanout",
                                   op |-> [o EXCEPT !.tasks = [i \in DOMAIN ks |-> NewTask(ks[i])]]]))
       ELSE IF Flight(grp, gk) # {}
          THEN Unchanged([pc |-> "mwaiting",
                          op |-> [o EXCEPT !.joined = TRUE,
                                           !.waitOn = (CHOOSE f \in Flight(grp, gk) : TRUE).leader]])
       ELSE [pc |-> "mloading", op |-> [o EXCEPT !.invoked = TRUE],
             flights |-> flights \cup {[grp |-> grp, key |-> gk, leader |-> <<p, 0>>, n |-> 0]},
             loads |-> loads]

\* c.load(ctx, key) up to the point where the loader runs or the caller waits.
LoadEntry(p, o0) ==
    LET c == o0.cx
        o == [o0 EXCEPT !.loadFirst = ~o0.readCache]
        k == key(c, o.key)
        grp == <<c.group, "group">>
    IN IF ~c.loaderFn /\ ~c.mLoaderFn
          THEN Unchanged(AfterLoad(o, NilEntry, "loader not set"))
       ELSE IF ~c.loaderFn
          THEN MLoadEntry(p, o, <<o.key>>)
       ELSE IF Flight(grp, k) # {}
          THEN Unchanged([pc |-> "waiting",
                          op |-> [o EXCEPT !.joined = TRUE,
                                           !.waitOn = (CHOOSE f \in Flight(grp, k) : TRUE).leader]])
       ELSE [pc |-> "loading", op |-> [o EXCEPT !.invoked = TRUE],
             flights |-> flights \cup {[grp |-> grp, key |-> k, leader |-> <<p, 0>>,
                                         n |-> loads[o.key] + 1]},
             loads |-> [loads EXCEPT ![o.key] = @ + 1]]

\* The caller takes the position n.
Goto(p, n) ==
    /\ pc' = [pc EXCEPT ![p] = n.pc]
    /\ op' = [op EXCEPT ![p] = n.op]
    /\ flights' = n.flights
    /\ loads' = n.loads

(***************************************************************************)
(* The environment: the clock advances, a store drops an entry (its        *)
(* delete-TTL ran out, or the store evicted it).                           *)
(***************************************************************************)
Tick ==
    /\ now < MaxTime
    /\ now' = now + 1
    /\ UNCHANGED <<l1, l2, b, env, aux, pc, op, calls, flights, loads>>

EvictL1(k) ==
    /\ l1[k] # NoFrame
    /\ l1' = [l1 EXCEPT ![k] = NoFrame]
    /\ UNCHANGED <<now, l2, b, env, aux, pc, op, calls, flights, loads>>

EvictL2(k) ==
    /\ l2[k] # NoFrame
    /\ l2' = [l2 EXCEPT ![k] = NoFrame]
    /\ UNCHANGED <<now, l1, b, env, aux, pc, op, calls, flights, loads>>

\* Another process that shares L2 (the remote store), with a facade built
\* the same way, sets v under a key L2 does not hold.
PeerSetL2(k, v) ==
    /\ l2[k] = NoFrame
    /\ l2' = wrapperSet(cx.cache.l2, l2, k, newEntry(v, cx.expireTTL, now))
    /\ UNCHANGED <<now, l1, b, env, aux, pc, op, calls, flights, loads>>

(***************************************************************************)
(* Get                                                                     *)
(***************************************************************************)
\* A caller whose previous call has returned may start its next call.
Begin(p) == pc[p] \in {"idle", "done"} /\ calls < MaxOps + env.more

\* The locals of a call that begins: during holds the callers whose call is
\* in progress at that moment, prev the caller's previous call and seq the
\* call's number among the calls of the run (where the run keeps them).
NewOp(p, kind, c) ==
    [IdleOp EXCEPT !.kind = kind, !.cx = c,
                   !.during = {q \in env.callers : pc[q] \notin {"idle", "done"}},
                   !.prev = IF env.history THEN [op[p] EXCEPT !.prev = NoPrev] ELSE NoPrev,
                   !.seq = IF env.history THEN calls + 1 ELSE 0]

\* Get(ctx, key) on facade c, up to its first store or loader call.
StartGet(p, c, k) ==
    /\ Begin(p)
    /\ calls' = calls + 1
    /\ LET o == [NewOp(p, "Get", c) EXCEPT !.key = k]
       IN Goto(p, IF c.ss \in CacheStrategies
                     THEN Unchanged(IF c.cache.ptr THEN [pc |-> "readL1", op |-> o]
                                                   ELSE Panicked(o))
                  ELSE IF c.ss \in SourceStrategies
                     THEN LoadEntry(p, o)
                  ELSE Unchanged(Failed(o, "invalid source strategy")))
    /\ UNCHANGED <<now, l1, l2, b, env, aux>>

\* A read of L1 after which L2 is read whatever L1 gave.
ReadL1Through(p) ==
    /\ pc[p] = "readL1"
    /\ \E r \in ReadOutcomes :
       LET o == op[p]
           e == wrapperGetOf(o.cx.cache.l1, l1, key(o.cx, o.key), r)
           o1 == [o EXCEPT !.fromL1 = e, !.readCache = TRUE,
                           !.reads = Note(Append(@, "l1"), @), !.readAt = Note(now, @),
                           !.faulted = ReadFault(@, o.cx.cache.l1, l1, key(o.cx, o.key),
                                                 "l1", r)]
       IN Goto(p, Unchanged([pc |-> "readL2", op |-> o1]))
    /\ UNCHANGED <<now, l1, l2, b, env, aux, calls>>

\* wrapper.Get, line 30-33: the read of L1.
ReadL1(p) ==
    /\ pc[p] = "readL1"
    /\ \E r \in ReadOutcomes :
       LET o == op[p]
           e == wrapperGetOf(o.cx.cache.l1, l1, key(o.cx, o.key), r)
           o1 == [o EXCEPT !.fromL1 = e, !.readCache = TRUE,
                           !.reads = Note(Append(@, "l1"), @), !.readAt = Note(now, @),
                           !.faulted = ReadFault(@, o.cx.cache.l1, l1, key(o.cx, o.key),
                                                 "l1", r)]
       IN Goto(p, Unchanged(IF Fresh(e, now)
                               THEN [pc |-> "check", op |-> [o1 EXCEPT !.fromCache = e]]
                               ELSE [pc |-> "readL2", op |-> o1]))
    /\ UNCHANGED <<now, l1, l2, b, env, aux, calls>>

\* wrapper.Get, line 34-39: the read of L2.
ReadL2(p) ==
    /\ pc[p] = "readL2"
    /\ \E r \in ReadOutcomes :
       LET o == op[p]
           e == wrapperGetOf(o.cx.cache.l2, l2, key(o.cx, o.key), r)
           o1 == [o EXCEPT !.fromL2 = e, !.reads = Note(Append(@, "l2"), @),
                           !.faulted = ReadFault(@, o.cx.cache.l2, l2, key(o.cx, o.key),
                                                 "l2", r)]
       IN Goto(p, Unchanged(IF Fresh(e, now)
                               THEN [pc |-> "backfill", op |-> o1]
                               ELSE [pc |-> "check",
                                     op |-> [o1 EXCEPT !.fromCache = latest(o.fromL1, e)]]))
    /\ UNCHANGED <<now, l1, l2, b, env, aux, calls>>

\* A back-fill that stamps the envelope anew.
BackfillRestamped(p) ==
    /\ pc[p] = "backfill"
    /\ \E r \in WriteOutcomes :
       LET o == op[p]
           e == newEntry(Value(o.fromL2), o.fromL2.ttl, now)
       IN /\ l1' = IF r = "ok" THEN wrapperSet(o.cx.cache.l1, l1, key(o.cx, o.key), e)
                                ELSE l1
          /\ Goto(p, Unchanged([pc |-> "check",
                                op |-> [o EXCEPT !.fromCache = o.fromL2,
                                                 !.backfilled = o.cx.cache.l1,
                                                 !.levels = Append(@, 1)]]))
    /\ UNCHANGED <<now, l2, b, env, aux, calls>>

\* wrapper.Get, line 36-37: the L2 envelope is written to L1.
Backfill(p) ==
    /\ pc[p] = "backfill"
    /\ \E r \in WriteOutcomes :
       LET o == op[p]
       IN /\ l1' = IF r = "ok" THEN wrapperSet(o.cx.cache.l1, l1, key(o.cx, o.key), o.fromL2)
                                ELSE l1
          /\ Goto(p, Unchanged([pc |-> "check",
                                op |-> [o EXCEPT !.fromCache = o.fromL2,
                                                 !.backfilled = o.cx.cache.l1,
                                                 !.levels = Append(@, 1),
                                                 !.faulted = IF o.cx.cache.l1 /\ r = "err"
                                                                THEN @ \cup {<<"l1", "set">>}
                                                                ELSE @]]))
    /\ UNCHANGED <<now, l2, b, env, aux, calls>>

\* A facade check that goes on to the loader under CacheOnly as well.
FacadeCheckLoads(p) ==
    /\ pc[p] = "check"
    /\ LET o == op[p]
           fresh == Fresh(o.fromCache, now)
           oo == [o EXCEPT !.hit = fresh, !.checkedAt = now]
       IN Goto(p, IF fresh
                     THEN Unchanged(ReturnValue(oo, o.fromCache))
                  ELSE IF o.cx.ss = SourceStrategySourceFirst
                     THEN Unchanged(Failed(oo, o.loadErr))
                  ELSE LoadEntry(p, oo))
    /\ UNCHANGED <<now, l1, l2, b, env, aux, calls>>

\* The facade's test of what wrapper.Get returned, and what follows it.
FacadeCheck(p) ==
    /\ pc[p] = "check"
    /\ LET o == op[p]
           fresh == Fresh(o.fromCache, now)
           oo == [o EXCEPT !.hit = fresh, !.checkedAt = now]
       IN Goto(p, IF fresh
                     THEN Unchanged(ReturnValue(oo, o.fromCache))
                  ELSE IF o.cx.ss = SourceStrategyCacheOnly
                     THEN Unchanged([pc |-> "done", op |-> oo])
                  ELSE IF o.cx.ss = SourceStrategySourceFirst
                     THEN Unchanged(Failed(oo, o.loadErr))
                  ELSE LoadEntry(p, oo))
    /\ UNCHANGED <<now, l1, l2, b, env, aux, calls>>

\* A return that hands a waiting caller whose context was cancelled the
\* context's error instead of what the leader's call gave.
DeliverCancelled(q, f, src, err) ==
    LET o == op[q]
        id == f.leader
        shares(i) ==
            \/ (id = <<q, i>> /\ o.tasks[i].st = "loading")
            \/ (o.tasks[i].st = "waiting" /\ o.tasks[i].waitOn = id)
    IN IF pc[q] = "fanout"
          THEN [pc |-> "fanout",
                op |-> [o EXCEPT !.tasks =
                          [i \in DOMAIN o.tasks |->
                             IF shares(i)
                                THEN [o.tasks[i] EXCEPT !.st = IF err = "" THEN "ok" ELSE "err",
                                                        !.src = src, !.err = recovered(err)]
                                ELSE o.tasks[i]]]]
       ELSE IF pc[q] = "waiting" /\ o.waitOn = id /\ o.ctxDone
          THEN AfterLoad([o EXCEPT !.flight = f], NilEntry, "context canceled")
       ELSE IF (pc[q] = "loading" /\ id = <<q, 0>>) \/ (pc[q] = "waiting" /\ o.waitOn = id)
          THEN (IF err = LoaderPanic.err
                   THEN Panicked([o EXCEPT !.flight = f])
                   ELSE AfterLoad([o EXCEPT !.flight = f], src, err))
       ELSE [pc |-> pc[q], op |-> o]

\* What the return of the flight led by id gives caller q: a Get that led
\* or joined the flight goes on, the tasks of a fan-out that led or joined
\* it are finished. Do panics in every caller of a flight whose function
\* panicked: a Get lets the panic through, a task recovers it as its error.
Deliver(q, f, src, err) ==
    LET o == op[q]
        id == f.leader
        shares(i) ==
            \/ (id = <<q, i>> /\ o.tasks[i].st = "loading")
            \/ (o.tasks[i].st = "waiting" /\ o.tasks[i].waitOn = id)
    IN IF pc[q] = "fanout"
          THEN [pc |-> "fanout",
                op |-> [o EXCEPT !.tasks =
                          [i \in DOMAIN o.tasks |->
                             IF shares(i)
                                THEN [o.tasks[i] EXCEPT !.st = IF err = "" THEN "ok" ELSE "err",
                                                        !.src = src, !.err = recovered(err)]
                                ELSE o.tasks[i]]]]
       ELSE IF (pc[q] = "loading" /\ id = <<q, 0>>) \/ (pc[q] = "waiting" /\ o.waitOn = id)
          THEN (IF err = LoaderPanic.err
                   THEN Panicked([o EXCEPT !.flight = f])
                   ELSE AfterLoad([o EXCEPT !.flight = f], src, err))
       ELSE [pc |-> pc[q], op |-> o]

\* The point loader called by the leader of flight f returns r: the leader
\* and every waiting caller get the same entry or the same error
\* (impl.go line 146-156).
LoaderReturn(f, r) ==
    /\ f \in flights
    /\ f.grp[2] = "group"
    /\ LET c == op[f.leader[1]].cx
           src == IF r.err = "" THEN newEntry(r.val, c.expireTTL, now) ELSE NilEntry
           n == [q \in env.callers |-> Deliver(q, f, src, r.err)]
       IN /\ pc' = [q \in env.callers |-> n[q].pc]
          /\ op' = [q \in env.callers |-> n[q].op]
    /\ flights' = flights \ {f}
    /\ UNCHANGED <<now, l1, l2, b, env, aux, calls, loads>>

(***************************************************************************)
(* Set, and the write of a loaded envelope                                 *)
(***************************************************************************)
\* Set(ctx, key, value) on facade c, up to its first store call.
StartSet(p, c, k, v) ==
    /\ Begin(p)
    /\ calls' = calls + 1
    /\ LET o == [NewOp(p, "Set", c) EXCEPT !.key = k, !.val = v]
           e == newEntry(v, c.expireTTL, now)
       IN Goto(p, Unchanged(IF setSkips(c, e) THEN [pc |-> "done", op |-> o]
                            ELSE IF ~c.cache.ptr THEN Panicked(o)
                            ELSE [pc |-> "setL2", op |-> [o EXCEPT !.toSet = e]]))
    /\ UNCHANGED <<now, l1, l2, b, env, aux>>

\* The entry after wrapper.set, the store calls made so far, the writes
\* among them and the failures among them (r is the store's answer), and the
\* level getDelTTL was asked for.
AfterSet(o, present, layer, r) ==
    [o EXCEPT !.toSet = IF present THEN Serialized(@) ELSE @,
              !.levels = Append(@, IF layer = "l2" THEN 2 ELSE 1),
              !.tried = IF present THEN Append(@, layer) ELSE @,
              !.wrote = IF present /\ r = "ok" THEN @ \cup {<<layer, key(o.cx, o.key)>>} ELSE @,
              !.failed = IF present /\ r = "err" THEN @ \cup {layer} ELSE @]

\* wrapper.Set, line 105: the write to L2.
SetL2(p) ==
    /\ pc[p] = "setL2"
    /\ \E r \in WriteOutcomes :
       LET o == op[p]
           w == o.cx.cache
       IN /\ l2' = IF r = "ok" THEN wrapperSet(w.l2, l2, key(o.cx, o.key), o.toSet) ELSE l2
          /\ Goto(p, Unchanged([pc |-> "setL1", op |-> AfterSet(o, w.l2, "l2", r)]))
    /\ UNCHANGED <<now, l1, b, env, aux, calls>>

\* A write to L1 whose failure, or that of the write to L2 before it, fails
\* the Get that wrote a loaded envelope.
SetL1Reports(p) ==
    /\ pc[p] = "setL1"
    /\ \E r \in WriteOutcomes :
       LET o == op[p]
           w == o.cx.cache
           oo == AfterSet(o, w.l1, "l1", r)
       IN /\ l1' = IF r = "ok" THEN wrapperSet(w.l1, l1, key(o.cx, o.key), o.toSet) ELSE l1
          /\ Goto(p, Unchanged(IF o.kind = "Set" \/ oo.failed # {}
                                  THEN [pc |-> "done",
                                        op |-> [oo EXCEPT !.err = wrapperSetError(oo.failed)]]
                               ELSE ReturnValue(oo, o.fromSource)))
    /\ UNCHANGED <<now, l2, b, env, aux, calls>>

\* wrapper.Set, line 106-110: the write to L1, and the return.
SetL1(p) ==
    /\ pc[p] = "setL1"
    /\ \E r \in WriteOutcomes :
       LET o == op[p]
           w == o.cx.cache
           oo == AfterSet(o, w.l1, "l1", r)
       IN /\ l1' = IF r = "ok" THEN wrapperSet(w.l1, l1, key(o.cx, o.key), o.toSet) ELSE l1
          /\ Goto(p, Unchanged(IF o.kind = "Set"
                                  THEN [pc |-> "done",
                                        op |-> [oo EXCEPT !.err = wrapperSetError(oo.failed)]]
                               ELSE ReturnValue(oo, o.fromSource)))
    /\ UNCHANGED <<now, l2, b, env, aux, calls>>

(***************************************************************************)
(* Del                                                                     *)
(***************************************************************************)
StartDel(p, c, k) ==
    /\ Begin(p)
    /\ calls' = calls + 1
    /\ LET o == [NewOp(p, "Del", c) EXCEPT !.key = k]
       IN Goto(p, Unchanged(IF ~c.cache.ptr THEN Panicked(o) ELSE [pc |-> "delL2", op |-> o]))
    /\ UNCHANGED <<now, l1, l2, b, env, aux>>

\* The store calls of a Del or MDel so far, the failures among them and
\* (where the run keeps the history) the frames they removed; called says
\* whether the layer's store was called, gone which frames the call removed.
AfterDel(o, called, layer, r, gone) ==
    [o EXCEPT !.tried = IF called THEN Append(@, layer) ELSE @,
              !.failed = IF called /\ r = "err" THEN @ \cup {layer} ELSE @,
              !.removed = Note(IF called /\ r = "ok" THEN @ \cup {<<layer, k>> : k \in gone}
                                                     ELSE @, @)]

\* wrapper.Delete, line 166
DelL2(p) ==
    /\ pc[p] = "delL2"
    /\ \E r \in WriteOutcomes :
       LET o == op[p]
           w == o.cx.cache
       IN /\ l2' = IF r = "ok" THEN wrapperDelete(w.l2, l2, key(o.cx, o.key)) ELSE l2
          /\ Goto(p, Unchanged([pc |-> "delL1", op |-> AfterDel(o, w.l2, "l2", r,
                                               {k \in {key(o.cx, o.key)} : l2[k] # NoFrame})]))
    /\ UNCHANGED <<now, l1, b, env, aux, calls>>

\* wrapper.Delete, line 167-171
DelL1(p) ==
    /\ pc[p] = "delL1"
    /\ \E r \in WriteOutcomes :
       LET o == op[p]
           w == o.cx.cache
           oo == AfterDel(o, w.l1, "l1", r, {k \in {key(o.cx, o.key)} : l1[k] # NoFrame})
       IN /\ l1' = IF r = "ok" THEN wrapperDelete(w.l1, l1, key(o.cx, o.key)) ELSE l1
          /\ Goto(p, Unchanged([pc |-> "done",
                                op |-> [oo EXCEPT !.err = wrapperDeleteError(oo.failed)]]))
    /\ UNCHANGED <<now, l2, b, env, aux, calls>>

(***************************************************************************)
(* MGet                                                                    *)
(***************************************************************************)
\* MGet(ctx, keys) on facade c, up to its first store or loader call.
StartMGet(p, c, ks) ==
    /\ Begin(p)
    /\ calls' = calls + 1
    /\ LET o == [NewOp(p, "MGet", c) EXCEPT !.keys = ks]
       IN Goto(p, IF c.ss \in CacheStrategies
                     THEN Unchanged(IF c.cache.ptr THEN [pc |-> "mreadL1", op |-> o]
                                                   ELSE Panicked(o))
                  ELSE IF c.ss \in SourceStrategies
                     THEN MLoadEntry(p, o, ks)
                  ELSE Unchanged(Failed(o, "invalid source strategy")))
    /\ UNCHANGED <<now, l1, l2, b, env, aux>>

\* wrapper.MGet, line 58-70: the read of L1.
MReadL1(p) ==
    /\ pc[p] = "mreadL1"
    /\ LET o == op[p]
           ks == keys(o.cx, o.keys)
           fromL1 == wrapperMGet(o.cx.cache.l1, l1, ks)
           hit == [k \in Range(ks) |-> MapGet(fromL1, k)]
           miss == SelectKeys(ks, {k \in Range(ks) : ~Fresh(hit[k], now)})
           o1 == [o EXCEPT !.mfromL1 = fromL1, !.mcache = hit, !.mmiss = miss,
                           !.readCache = TRUE, !.reads = Note(Append(@, "l1"), @),
                           !.readAt = Note(now, @)]
       IN Goto(p, Unchanged([pc |-> IF miss = <<>> THEN "mcheck" ELSE "mreadL2", op |-> o1]))
    /\ UNCHANGED <<now, l1, l2, b, env, aux, calls>>

\* wrapper.MGet, line 72-81: the read of L2; wrapper.mSet is handed the
\* delete-TTL of level 1 and returns without a store call when there is no L1
\* or nothing to write to it.
MReadL2(p) ==
    /\ pc[p] = "mreadL2"
    /\ LET o == op[p]
           ks == keys(o.cx, o.keys)
           fromL2 == wrapperMGet(o.cx.cache.l2, l2, o.mmiss)
           hit == [k \in Range(ks) |-> latest(o.mcache[k], MapGet(fromL2, k))]
           hitL2 == [k \in {x \in DOMAIN fromL2 : Fresh(fromL2[x], now)} |-> fromL2[k]]
           o1 == [o EXCEPT !.mfromL2 = fromL2, !.mcache = hit, !.mhitL2 = hitL2,
                           !.reads = Note(Append(@, "l2"), @), !.levels = Append(@, 1)]
       IN Goto(p, Unchanged([pc |-> IF o.cx.cache.l1 /\ DOMAIN hitL2 # {}
                                       THEN "mbackfill" ELSE "mcheck",
                             op |-> o1]))
    /\ UNCHANGED <<now, l1, l2, b, env, aux, calls>>

\* A batch back-fill that stamps the envelopes anew.
MBackfillRestamped(p) ==
    /\ pc[p] = "mbackfill"
    /\ \E r \in WriteOutcomes :
       LET o == op[p]
           w == o.cx.cache
           es == [k \in DOMAIN o.mhitL2 |->
                    newEntry(Value(o.mhitL2[k]), o.mhitL2[k].ttl, now)]
       IN /\ l1' = IF r = "ok" THEN wrapperMSet(w, w.l1, l1, es) ELSE l1
          /\ Goto(p, Unchanged([pc |-> "mcheck", op |-> [o EXCEPT !.backfilled = TRUE]]))
    /\ UNCHANGED <<now, l2, b, env, aux, calls>>

\* wrapper.MGet, line 81: the fresh L2 envelopes are written to L1.
MBackfill(p) ==
    /\ pc[p] = "mbackfill"
    /\ \E r \in WriteOutcomes :
       LET o == op[p]
           w == o.cx.cache
       IN /\ l1' = IF r = "ok" THEN wrapperMSet(w, w.l1, l1, o.mhitL2) ELSE l1
          /\ Goto(p, Unchanged([pc |-> "mcheck", op |-> [o EXCEPT !.backfilled = TRUE]]))
    /\ UNCHANGED <<now, l2, b, env, aux, calls>>

\* The facade's grouping of what wrapper.MGet returned, and what follows it.
MFacadeCheck(p) ==
    /\ pc[p] = "mcheck"
    /\ LET o == op[p]
           g == groupBatchRes(o.cx, o.keys, o.mcache, now)
           toLoad == g.expire \o g.miss
           oo == [o EXCEPT !.mhit = g.hit, !.hit = (toLoad = <<>>), !.checkedAt = now]
       IN Goto(p, IF o.cx.ss = SourceStrategyCacheOnly \/ toLoad = <<>>
                     THEN Unchanged(ReturnBatch(oo, g.hit))
                     ELSE MLoadEntry(p, oo, toLoad))
    /\ UNCHANGED <<now, l1, l2, b, env, aux, calls>>

\* What the batch loader may return for the keys ks: one value per key, an
\* error, or (where the run allows it) a list that is one value short.
MLoaderResults(ks) ==
    LET vs == {r.val : r \in {x \in env.results : x.err = ""}}
    IN {[vals |-> s, err |-> ""] : s \in [1..Len(ks) -> vs]}
       \cup (IF LoaderErr \in env.results
                THEN {[vals |-> <<>>, err |-> "mloader fn err"]} ELSE {})
       \cup (IF env.short /\ ks # <<>>
                THEN {[vals |-> s, err |-> "mloader fn err: len(keys) != len(values)"] :
                         s \in [1..(Len(ks) - 1) -> vs]}
                ELSE {})

\* The map the batch function builds (impl.go line 321-323): for a key given
\* twice the later value stays.
LoadedMap(c, ks, vals, clock) ==
    [k \in {key(c, ks[i]) : i \in DOMAIN ks} |->
        newEntry(vals[CHOOSE i \in DOMAIN ks :
                        key(c, ks[i]) = k /\ \A j \in DOMAIN ks : key(c, ks[j]) = k => j <= i],
                 c.expireTTL, clock)]

\* The batch loader called by the leader of flight f returns r: the leader
\* and every waiting caller get the same map or the same error.
MLoaderReturn(f, r) ==
    /\ f \in flights
    /\ f.grp[2] = "mGroup"
    /\ LET lead == f.leader[1]
           c == op[lead].cx
           src == IF r.err = "" THEN LoadedMap(c, op[lead].toLoad, r.vals, now) ELSE EmptyMap
           shares(q) == q = lead \/ (pc[q] = "mwaiting" /\ op[q].waitOn = f.leader)
           n == [q \in env.callers |->
                   IF shares(q) THEN AfterBatch([op[q] EXCEPT !.flight = f], src, r.err)
                                ELSE [pc |-> pc[q], op |-> op[q]]]
       IN /\ pc' = [q \in env.callers |-> n[q].pc]
          /\ op' = [q \in env.callers |-> n[q].op]
    /\ flights' = flights \ {f}
    /\ UNCHANGED <<now, l1, l2, b, env, aux, calls, loads>>

(***************************************************************************)
(* The fan-out of mLoad over the point loader (impl.go line 281-309): one  *)
(* task per key, each going through c.load and its single-flight group.    *)
(***************************************************************************)
\* The i-th task calls c.load: it joins the flight for its key or leads one.
TaskStart(p, i) ==
    /\ pc[p] = "fanout"
    /\ i \in DOMAIN op[p].tasks
    /\ op[p].tasks[i].st = "new"
    /\ LET o == op[p]
           c == o.cx
           t == o.tasks[i]
           k == key(c, t.key)
           grp == <<c.group, "group">>
       IN IF Flight(grp, k) # {}
             THEN /\ op' = [op EXCEPT ![p].tasks[i] =
                              [t EXCEPT !.st = "waiting",
                                        !.waitOn = (CHOOSE f \in Flight(grp, k) : TRUE).leader]]
                  /\ UNCHANGED <<flights, loads>>
             ELSE /\ op' = [op EXCEPT ![p].tasks[i].st = "loading", ![p].invoked = TRUE]
                  /\ flights' = flights \cup {[grp |-> grp, key |-> k, leader |-> <<p, i>>,
                                                 n |-> loads[t.key] + 1]}
                  /\ loads' = [loads EXCEPT ![t.key] = @ + 1]
    /\ UNCHANGED <<now, l1, l2, b, env, aux, pc, calls>>

\* A wait that, when a task failed, returns the entries of the tasks that
\* succeeded and no error.
FanoutWaitPartial(p) ==
    /\ pc[p] = "fanout"
    /\ \A i \in DOMAIN op[p].tasks : op[p].tasks[i].st \in {"ok", "err"}
    /\ LET o == op[p]
           good == {i \in DOMAIN o.tasks : o.tasks[i].st = "ok"}
           ks == {key(o.cx, o.tasks[i].key) : i \in good}
           of(k) == {i \in good : key(o.cx, o.tasks[i].key) = k}
       IN \E last \in [ks -> DOMAIN o.tasks] :
             /\ \A k \in ks : last[k] \in of(k)
             /\ Goto(p, Unchanged(AfterBatch(o, [k \in ks |-> o.tasks[last[k]].src], "")))
    /\ UNCHANGED <<now, l1, l2, b, env, aux, calls>>

\* eg.Wait() returns: the error of a failed task, or the map of the results;
\* of two tasks for one key either may have stored its entry last.
FanoutWait(p) ==
    /\ pc[p] = "fanout"
    /\ \A i \in DOMAIN op[p].tasks : op[p].tasks[i].st \in {"ok", "err"}
    /\ LET o == op[p]
           failed == {i \in DOMAIN o.tasks : o.tasks[i].st = "err"}
           ks == {key(o.cx, o.tasks[i].key) : i \in DOMAIN o.tasks}
           of(k) == {i \in DOMAIN o.tasks : key(o.cx, o.tasks[i].key) = k}
       IN IF failed # {}
             THEN \E i \in failed :
                     Goto(p, Unchanged(AfterBatch(o, EmptyMap, o.tasks[i].err)))
             ELSE \E last \in [ks -> DOMAIN o.tasks] :
                     /\ \A k \in ks : last[k] \in of(k)
                     /\ Goto(p, Unchanged(AfterBatch(o, [k \in ks |-> o.tasks[last[k]].src], "")))
    /\ UNCHANGED <<now, l1, l2, b, env, aux, calls>>

(***************************************************************************)
(* MSet, and the write of loaded envelopes                                 *)
(***************************************************************************)
\* The map MSet builds (impl.go line 350-353).
MSetEntries(c, ks, vs, clock) == LoadedMap(c, ks, vs, clock)

\* The value lists a caller may pass with the keys ks.
ValueLists(ks) ==
    [1..Len(ks) -> env.values]
       \cup (IF env.short /\ ks # <<>> THEN [1..(Len(ks) - 1) -> env.values] ELSE {})

\* An MSet that does not compare the lengths and writes the keys it has
\* values for.
StartMSetUnchecked(p, c, ks, vs) ==
    /\ Begin(p)
    /\ calls' = calls + 1
    /\ LET o == [NewOp(p, "MSet", c) EXCEPT !.keys = ks, !.vals = vs]
           n == IF Len(ks) < Len(vs) THEN Len(ks) ELSE Len(vs)
       IN Goto(p, Unchanged(
                    IF ~c.cache.ptr THEN Panicked(o)
                    ELSE [pc |-> "msetL2",
                          op |-> [o EXCEPT !.msrc = MSetEntries(c, SubSeq(ks, 1, n),
                                                                SubSeq(vs, 1, n), now)]]))
    /\ UNCHANGED <<now, l1, l2, b, env, aux>>

\* MSet(ctx, keys, values) on facade c, up to its first store call.
StartMSet(p, c, ks, vs) ==
    /\ Begin(p)
    /\ calls' = calls + 1
    /\ LET o == [NewOp(p, "MSet", c) EXCEPT !.keys = ks, !.vals = vs]
       IN Goto(p, Unchanged(
                    IF Len(ks) # Len(vs) THEN Failed(o, "keys values length not equal")
                    ELSE IF ~c.cache.ptr THEN Panicked(o)
                    ELSE [pc |-> "msetL2",
                          op |-> [o EXCEPT !.msrc = MSetEntries(c, ks, vs, now)]]))
    /\ UNCHANGED <<now, l1, l2, b, env, aux>>

\* The entries after wrapper.mSet, the store calls made so far (the store
\* is called when it is there and the map is not empty), the writes among
\* them and the failures among them (r is the store's answer).
AfterMSet(o, present, layer, r) ==
    LET w == o.cx.cache
        kept == wrapperMSetWrites(w, present, o.msrc)
        called == present /\ DOMAIN o.msrc # {}
    IN [o EXCEPT !.msrc = [k \in DOMAIN o.msrc |-> IF k \in kept THEN Serialized(o.msrc[k])
                                                                  ELSE o.msrc[k]],
                 !.levels = Append(@, IF layer = "l2" THEN 2 ELSE 1),
                 !.tried = IF called THEN Append(@, layer) ELSE @,
                 !.wrote = IF r = "ok" THEN @ \cup {<<layer, k>> : k \in kept} ELSE @,
                 !.failed = IF called /\ r = "err" THEN @ \cup {layer} ELSE @]

\* wrapper.MSet, line 129: the write to L2.
MSetL2(p) ==
    /\ pc[p] = "msetL2"
    /\ \E r \in WriteOutcomes :
       LET o == op[p]
           w == o.cx.cache
       IN /\ l2' = IF r = "ok" THEN wrapperMSet(w, w.l2, l2, o.msrc) ELSE l2
          /\ Goto(p, Unchanged([pc |-> "msetL1", op |-> AfterMSet(o, w.l2, "l2", r)]))
    /\ UNCHANGED <<now, l1, b, env, aux, calls>>

\* wrapper.MSet, line 130-134: the write to L1, and the return.
MSetL1(p) ==
    /\ pc[p] = "msetL1"
    /\ \E r \in WriteOutcomes :
       LET o == op[p]
           w == o.cx.cache
           oo == AfterMSet(o, w.l1, "l1", r)
       IN /\ l1' = IF r = "ok" THEN wrapperMSet(w, w.l1, l1, o.msrc) ELSE l1
          /\ Goto(p, Unchanged(IF o.kind = "MSet"
                                  THEN [pc |-> "done",
                                        op |-> [oo EXCEPT !.err = wrapperMSetError(oo.failed)]]
                               ELSE ReturnBatch(oo, gmapMerge(o.mhit, o.msrc))))
    /\ UNCHANGED <<now, l2, b, env, aux, calls>>

(***************************************************************************)
(* MDel                                                                    *)
(***************************************************************************)
StartMDel(p, c, ks) ==
    /\ Begin(p)
    /\ calls' = calls + 1
    /\ LET o == [NewOp(p, "MDel", c) EXCEPT !.keys = ks]
       IN Goto(p, Unchanged(IF ~c.cache.ptr THEN Panicked(o) ELSE [pc |-> "mdelL2", op |-> o]))
    /\ UNCHANGED <<now, l1, l2, b, env, aux>>

\* wrapper.MDelete, line 186; wrapper.mDelete calls the store when it is
\* there and the list is not empty.
MDelL2(p) ==
    /\ pc[p] = "mdelL2"
    /\ \E r \in WriteOutcomes :
       LET o == op[p]
           w == o.cx.cache
           ks == keys(o.cx, o.keys)
       IN /\ l2' = IF r = "ok" THEN wrapperMDelete(w.l2, l2, ks) ELSE l2
          /\ Goto(p, Unchanged([pc |-> "mdelL1",
                                op |-> AfterDel(o, w.l2 /\ ks # <<>>, "l2", r,
                                                {k \in Range(ks) : l2[k] # NoFrame})]))
    /\ UNCHANGED <<now, l1, b, env, aux, calls>>

\* wrapper.MDelete, line 187-191
MDelL1(p) ==
    /\ pc[p] = "mdelL1"
    /\ \E r \in WriteOutcomes :
       LET o == op[p]
           w == o.cx.cache
           ks == keys(o.cx, o.keys)
           oo == AfterDel(o, w.l1 /\ ks # <<>>, "l1", r, {k \in Range(ks) : l1[k] # NoFrame})
       IN /\ l1' = IF r = "ok" THEN wrapperMDelete(w.l1, l1, ks) ELSE l1
          /\ Goto(p, Unchanged([pc |-> "done",
                                op |-> [oo EXCEPT !.err = wrapperMDeleteError(oo.failed)]]))
    /\ UNCHANGED <<now, l2, b, env, aux, calls>>

(***************************************************************************)
(* The state after construction: empty stores, a facade built from one of  *)
(* the given builders, callers that have not called yet.                   *)
(***************************************************************************)
InitState(builders, e) ==
    /\ now = 0
    /\ l1 = EmptyStore
    /\ l2 = EmptyStore
    /\ b \in builders
    /\ BuildError(b) = ""
    /\ env = e
    /\ pc = [p \in e.callers |-> "idle"]
    /\ op = [p \in e.callers |-> IdleOp]
    /\ calls = 0
    /\ flights = {}
    /\ loads = [k \in UserKeys |-> 0]
    /\ AuxIdle

\* A builder with both stores, an expiry of one millisecond, and the given
\* loaders, strategy and null-value policy.
BuilderOf(ss, cacheNil, loaderFn, mLoaderFn) ==
    [DefaultBuilder EXCEPT !.genKeyFn = TRUE, !.l1 = TRUE, !.l2 = TRUE,
                           !.loaderFn = loaderFn, !.mLoaderFn = mLoaderFn,
                           !.expireTTL = NsPerMs, !.ss = ss, !.cacheNil = cacheNil]

\* The facades the callers of a run hold: the built one, and those derived
\* from it with WithSourceStrategy.
Facades == {cx} \cup {WithSourceStrategy(cx, s) : s \in env.derived}

(***************************************************************************)
(* The steps of the operations, for the callers of the run.                *)
(***************************************************************************)
\* The storage keys the callers of the run use.
UsedKeys ==
    {key(cx, u) : u \in env.keys \cup UNION {Range(ks) : ks \in env.lists}}

Environment ==
    \/ Tick
    \/ \E k \in UsedKeys : EvictL1(k)
    \/ \E k \in UsedKeys : EvictL2(k)

GetSteps ==
    \/ \E p \in env.callers : ReadL1(p)
    \/ \E p \in env.callers : ReadL2(p)
    \/ \E p \in env.callers : Backfill(p)
    \/ \E p \in env.callers : FacadeCheck(p)

LoaderSteps == \E f \in flights, r \in env.results : LoaderReturn(f, r)

SetSteps ==
    \/ \E p \in env.callers : SetL2(p)
    \/ \E p \in env.callers : SetL1(p)

DelSteps ==
    \/ \E p \in env.callers : DelL2(p)
    \/ \E p \in env.callers : DelL1(p)

MGetSteps ==
    \/ \E p \in env.callers : MReadL1(p)
    \/ \E p \in env.callers : MReadL2(p)
    \/ \E p \in env.callers : MBackfill(p)
    \/ \E p \in env.callers : MFacadeCheck(p)

MLoaderSteps ==
    \E f \in flights : \E r \in MLoaderResults(op[f.leader[1]].toLoad) : MLoaderReturn(f, r)

FanoutSteps ==
    \/ \E p \in env.callers : \E i \in DOMAIN op[p].tasks : TaskStart(p, i)
    \/ \E p \in env.callers : FanoutWait(p)

MSetSteps ==
    \/ \E p \in env.callers : MSetL2(p)
    \/ \E p \in env.callers : MSetL1(p)

MDelSteps ==
    \/ \E p \in env.callers : MDelL2(p)
    \/ \E p \in env.callers : MDelL1(p)

CallGet == \E p \in env.callers, c \in Facades, k \in env.keys : StartGet(p, c, k)

CallSet ==
    \E p \in env.callers, c \in Facades, k \in env.keys, v \in env.values : StartSet(p, c, k, v)

CallDel == \E p \in env.callers, c \in Facades, k \in env.keys : StartDel(p, c, k)

CallMGet == \E p \in env.callers, c \in Facades, ks \in env.lists : StartMGet(p, c, ks)

CallMSet ==
    \E p \in env.callers, c \in Facades, ks \in env.lists :
       \E vs \in ValueLists(ks) : StartMSet(p, c, ks, vs)

CallMDel == \E p \in env.callers, c \in Facades, ks \in env.lists : StartMDel(p, c, ks)

(***************************************************************************)
(* Spec: one caller uses Get, Set and Del on one key of a facade built     *)
(* with a point loader, either strategy and either null-value policy.      *)
(***************************************************************************)
Env ==
    [callers |-> {1}, keys |-> {"a"}, lists |-> {},
     values |-> {97, NilVal}, results |-> {LoaderOk(98), LoaderOk(NilVal), LoaderErr},
     short |-> FALSE, derived |-> {},
     faults |-> FALSE, history |-> FALSE, more |-> 0]

Builders ==
    {BuilderOf(ss, cn, TRUE, FALSE) :
        ss \in CacheStrategies \cup SourceStrategies, cn \in BOOLEAN}

Init == InitState(Builders, Env)

Next ==
    \/ Environment
    \/ CallGet
    \/ CallSet
    \/ CallDel
    \/ GetSteps
    \/ LoaderSteps
    \/ SetSteps
    \/ DelSteps

Spec == Init /\ [][Next]_vars

(***************************************************************************)
(* SpecFlight: two callers call Get for one key, concurrently, on a        *)
(* CacheFirst facade with a point loader whose answers may differ from     *)
(* one call to the next.                                                   *)
(***************************************************************************)
EnvFlight ==
    [callers |-> AllCallers, keys |-> {"a"}, lists |-> {},
     values |-> {}, results |-> {LoaderOk(97), LoaderOk(98), LoaderErr},
     short |-> FALSE, derived |-> {},
     faults |-> FALSE, history |-> FALSE, more |-> 0]

InitFlight ==
    InitState({BuilderOf(SourceStrategyCacheFirst, FALSE, TRUE, FALSE)}, EnvFlight)

NextFlight ==
    \/ Tick
    \/ CallGet
    \/ GetSteps
    \/ LoaderSteps
    \/ SetSteps

SpecFlight == InitFlight /\ [][NextFlight]_vars

\* Every caller has made one call, a Get, which has returned, and the calls
\* of any two callers overlapped in time.
AllGot ==
    /\ calls = Cardinality(env.callers)
    /\ \A p \in env.callers : pc[p] = "done" /\ op[p].kind = "Get"
    /\ \A p, q \in env.callers : p # q => (q \in op[p].during \/ p \in op[q].during)

\* C1 as stated: N concurrent Gets of one key under CacheFirst, starting
\* with no cache entry for it, invoke the point loader exactly once, and all
\* N callers receive the same value.
C1_ExactlyOnce ==
    AllGot =>
       /\ \A k \in env.keys : loads[k] = 1
       /\ \A p, q \in env.callers : op[p].res = op[q].res /\ op[p].err = op[q].err

\* C1 as amended: at most one invocation of the point loader for a key is
\* in flight at a time; callers that share an invocation get the same value
\* or the same error; a Get that missed the cache took its result from an
\* invocation, and there are never more invocations than calls.
C1_OneInFlight ==
    /\ \A f, g \in flights : (f.grp = g.grp /\ f.key = g.key) => f = g
    /\ \A p, q \in env.callers :
          (/\ pc[p] = "done" /\ pc[q] = "done"
           /\ op[p].kind = "Get" /\ op[q].kind = "Get"
           /\ op[p].flight # NilFlight /\ op[p].flight = op[q].flight)
          => (op[p].res = op[q].res /\ op[p].err = op[q].err)
    /\ \A p \in env.callers :
          (pc[p] = "done" /\ op[p].kind = "Get" /\ ~op[p].hit)
          => (op[p].flight # NilFlight /\ loads[op[p].key] >= op[p].flight.n)
    /\ \A k \in env.keys : loads[k] <= calls

\* Two concurrent Gets have shared one invocation of the loader.
C1_Witness ==
    /\ AllGot
    /\ \A k \in env.keys : loads[k] = 1
    /\ \E p \in env.callers : op[p].joined /\ ~op[p].invoked /\ op[p].res # NilVal
    /\ \E p \in env.callers : op[p].invoked

(***************************************************************************)
(* Get under the strategies (Spec).                                        *)
(***************************************************************************)
\* Caller p's Get on a facade of strategy ss has returned.
GotUnder(p, ss) == pc[p] = "done" /\ op[p].kind = "Get" /\ op[p].cx.ss = ss

\* The call wrote the entry e to L2 and to L1 under its key.
WroteBoth(o, e) ==
    /\ o.wrote = {<<"l2", key(o.cx, o.key)>>, <<"l1", key(o.cx, o.key)>>}
    /\ o.toSet = Serialized(e)

\* C2 as stated: under CacheFirst, Get returns the cached value without
\* invoking the loader when the wrapper yields a non-expired envelope;
\* otherwise it invokes the loader, on success writes the loaded envelope to
\* the cache and returns the loaded value, on error returns the error and
\* writes nothing to L1 or L2.
C2_CacheFirstGet ==
    \A p \in env.callers :
       GotUnder(p, SourceStrategyCacheFirst) =>
          LET o == op[p]
          IN IF o.hit
                THEN o.res = Value(o.fromCache) /\ o.err = "" /\ ~o.invoked
             ELSE IF o.loadErr = ""
                THEN o.invoked /\ WroteBoth(o, o.fromSource)
                     /\ o.res = Value(o.fromSource) /\ o.err = ""
             ELSE o.invoked /\ o.err = o.loadErr /\ o.res = NilVal
                  /\ o.wrote = {} /\ ~o.backfilled

\* C2 as amended: a loaded null envelope is not written when cacheNil is
\* off; on a loader error no loaded envelope is written, and the only write
\* the call can have made is the wrapper's back-fill of L1 with an L2
\* envelope that was fresh when the wrapper read it.
C2_CacheFirstGetAmended ==
    \A p \in env.callers :
       GotUnder(p, SourceStrategyCacheFirst) =>
          LET o == op[p]
          IN IF o.hit
                THEN o.res = Value(o.fromCache) /\ o.err = "" /\ ~o.invoked
             ELSE IF o.loadErr = ""
                THEN /\ o.invoked
                     /\ o.res = Value(o.fromSource) /\ o.err = ""
                     /\ IF IsNil(o.fromSource) /\ ~o.cx.cacheNil
                           THEN o.wrote = {}
                           ELSE WroteBoth(o, o.fromSource)
             ELSE /\ o.invoked /\ o.err = o.loadErr /\ o.res = NilVal
                  /\ o.wrote = {}
                  /\ o.backfilled => (o.fromL2.ptr /\ o.fromCache = o.fromL2)

\* A CacheFirst Get has missed, loaded a value and written it to both layers.
C2_Witness ==
    \E p \in env.callers :
       /\ GotUnder(p, SourceStrategyCacheFirst)
       /\ ~op[p].hit /\ op[p].readCache /\ op[p].invoked /\ op[p].loadErr = ""
       /\ op[p].res # NilVal
       /\ WroteBoth(op[p], op[p].fromSource)

\* C3: under ExpiredBackup, when the cache holds no non-expired envelope and
\* the loader fails, Get returns the value of a cached envelope and no error
\* if L1 or L2 gave an envelope, and the loader's error only if neither did.
C3_StaleOnError ==
    \A p \in env.callers :
       (GotUnder(p, SourceStrategyExpiredBackup) /\ ~op[p].hit /\ op[p].loadErr # "") =>
          LET o == op[p]
              found == {e \in {o.fromL1, o.fromL2} : e.ptr}
          IN IF found # {}
                THEN o.err = "" /\ \E e \in found : o.res = Value(e) /\ o.fromCache = e
                ELSE o.err = o.loadErr /\ o.res = NilVal

\* An ExpiredBackup Get has served the value of an expired envelope after
\* the loader failed.
C3_Witness ==
    \E p \in env.callers :
       /\ GotUnder(p, SourceStrategyExpiredBackup)
       /\ ~op[p].hit /\ op[p].invoked /\ op[p].loadErr # ""
       /\ op[p].fromCache.ptr /\ IsExpired(op[p].fromCache, now)
       /\ op[p].res # NilVal /\ op[p].err = ""

\* The envelope e exists and its expiry time has not passed at time t.
NotExpiredAt(e, t) == e.ptr /\ ~(e.ttl > 0 /\ e.createAt * NsPerMs + e.ttl < t * NsPerMs)

\* C4 as stated: under SourceFirst, Get invokes the loader before reading
\* the cache; on success it writes the loaded envelope to the cache and
\* returns the loaded value; on error it returns the cached value only if a
\* non-expired envelope exists, otherwise the loader's error.
C4_SourceFirstGet ==
    \A p \in env.callers :
       GotUnder(p, SourceStrategySourceFirst) =>
          LET o == op[p]
          IN /\ o.invoked /\ o.loadFirst
             /\ IF o.loadErr = ""
                   THEN WroteBoth(o, o.fromSource) /\ ~o.readCache
                        /\ o.res = Value(o.fromSource) /\ o.err = ""
                ELSE IF NotExpiredAt(o.fromCache, o.checkedAt)
                   THEN o.res = Value(o.fromCache) /\ o.err = ""
                ELSE o.err = o.loadErr /\ o.res = NilVal

\* C4 as amended: a loaded null envelope is not written when cacheNil is off.
C4_SourceFirstGetAmended ==
    \A p \in env.callers :
       GotUnder(p, SourceStrategySourceFirst) =>
          LET o == op[p]
          IN /\ o.invoked /\ o.loadFirst
             /\ IF o.loadErr = ""
                   THEN /\ ~o.readCache
                        /\ o.res = Value(o.fromSource) /\ o.err = ""
                        /\ IF IsNil(o.fromSource) /\ ~o.cx.cacheNil
                              THEN o.wrote = {}
                              ELSE WroteBoth(o, o.fromSource)
                ELSE IF NotExpiredAt(o.fromCache, o.checkedAt)
                   THEN o.res = Value(o.fromCache) /\ o.err = ""
                ELSE o.err = o.loadErr /\ o.res = NilVal

\* A SourceFirst Get whose loader failed has found an expired envelope in
\* the cache and returned the loader's error.
C4_Witness ==
    \E p \in env.callers :
       /\ GotUnder(p, SourceStrategySourceFirst)
       /\ op[p].loadErr # "" /\ op[p].readCache /\ ~op[p].hit
       /\ op[p].fromCache.ptr /\ IsExpired(op[p].fromCache, now)
       /\ op[p].err = op[p].loadErr

(***************************************************************************)
(* SpecDerived: one caller holds a facade built with both stores and a     *)
(* point loader, and the facades WithSourceStrategy derives from it for    *)
(* CacheOnly and CacheFirst, and uses every operation of each.             *)
(***************************************************************************)
EnvDerived ==
    [callers |-> {1}, keys |-> {"a"}, lists |-> {<<"a", "b">>},
     values |-> {97}, results |-> {LoaderOk(98)},
     short |-> FALSE, derived |-> {SourceStrategyCacheOnly, SourceStrategyCacheFirst},
     faults |-> FALSE, history |-> FALSE, more |-> 0]

InitDerived ==
    InitState({BuilderOf(SourceStrategyCacheFirst, FALSE, TRUE, FALSE)}, EnvDerived)

NextDerived ==
    \/ Environment
    \/ CallGet
    \/ CallSet
    \/ CallDel
    \/ CallMGet
    \/ CallMSet
    \/ CallMDel
    \/ GetSteps
    \/ LoaderSteps
    \/ SetSteps
    \/ DelSteps
    \/ MGetSteps
    \/ FanoutSteps
    \/ MSetSteps
    \/ MDelSteps

SpecDerived == InitDerived /\ [][NextDerived]_vars

\* The facade c was returned by WithSourceStrategy.
IsDerived(c) == c \in Facades \ {cx}

\* C5: the facade WithSourceStrategy returns works on the wrapper of the
\* facade it was derived from: a Get on it under CacheOnly or CacheFirst
\* returns the value the stores hold (fresh) for the key, as set through the
\* original facade, and no operation on it fails for lack of a cache.
C5_DerivedShares ==
    \A p \in env.callers :
       (pc[p] = "done" /\ IsDerived(op[p].cx)) =>
          LET o == op[p]
              held == wrapperGet(cx.cache.l1, l1, key(cx, o.key))
          IN /\ o.err # "panic"
             /\ (o.kind = "Get" /\ Fresh(held, now)) => (o.res = Value(held) /\ o.err = "")

(***************************************************************************)
(* SpecNil: one caller uses Get, MGet, Set and MSet, with values and       *)
(* loader results that may be absent, on a facade built with cacheNil off, *)
(* a point loader or a batch loader, and a strategy that writes loaded     *)
(* envelopes back.  SpecNilOn: the same with cacheNil on.                  *)
(***************************************************************************)
EnvNil ==
    [callers |-> {1}, keys |-> {"a"}, lists |-> {<<"a", "b">>},
     values |-> {97, NilVal}, results |-> {LoaderOk(98), LoaderOk(NilVal)},
     short |-> FALSE, derived |-> {},
     faults |-> FALSE, history |-> FALSE, more |-> 0]

BuildersNil(cn) ==
    {BuilderOf(ss, cn, lf, ~lf) :
        ss \in {SourceStrategyCacheFirst, SourceStrategySourceFirst, SourceStrategyExpiredBackup},
        lf \in BOOLEAN}

InitNil == InitState(BuildersNil(FALSE), EnvNil)

InitNilOn == InitState(BuildersNil(TRUE), EnvNil)

NextNil ==
    \/ Tick
    \/ \E k \in UsedKeys : EvictL1(k)
    \/ CallGet
    \/ CallSet
    \/ CallMGet
    \/ CallMSet
    \/ GetSteps
    \/ LoaderSteps
    \/ SetSteps
    \/ MGetSteps
    \/ MLoaderSteps
    \/ FanoutSteps
    \/ MSetSteps

SpecNil == InitNil /\ [][NextNil]_vars

SpecNilOn == InitNilOn /\ [][NextNil]_vars

\* The store holds a null envelope (isNil = 1) under some key.
HoldsNull(store) ==
    \E k \in DOMAIN store :
       store[k] # NoFrame /\ Len(store[k]) >= bytesHeaderSize
          /\ store[k][bytesCreateAtSize + bytesTTLSize + 1] = 1

\* C6: with cacheNil off and stores that start without null envelopes,
\* whatever Get, MGet, Set and MSet calls are made, also with loaders that
\* return absent values, neither L1 nor L2 receives a null envelope.
C6_NoNullWritten == ~b.cacheNil => (~HoldsNull(l1) /\ ~HoldsNull(l2))

\* With cacheNil off, a batch load of MGet has returned an absent value and
\* the write-back has run.
C6_Witness ==
    /\ ~b.cacheNil
    /\ \E p \in env.callers :
          /\ pc[p] = "done" /\ op[p].kind = "MGet" /\ op[p].err = ""
          /\ op[p].cx.ss = SourceStrategyCacheFirst
          /\ \E k \in DOMAIN op[p].msrc : IsNil(op[p].msrc[k])
          /\ \E k \in DOMAIN op[p].msrc : <<"l2", k>> \in op[p].wrote

\* The call wrote under each of the storage keys ks to L2 and to L1.
WroteAll(o, ks) == \A k \in ks : <<"l2", k>> \in o.wrote /\ <<"l1", k>> \in o.wrote

\* C7: with cacheNil on, a null value is written to L1 and L2 as a value
\* would be, on every write path: Set, MSet, the write-back after a point
\* load in Get and the write-back after a batch load in MGet.
C7_NullWrittenEverywhere ==
    \A p \in env.callers :
       (pc[p] = "done" /\ op[p].cx.cacheNil /\ op[p].err = "") =>
          LET o == op[p]
              writesBack == o.cx.ss \in CacheStrategies /\ o.invoked /\ o.loadErr = ""
          IN /\ o.kind = "Set" => WroteAll(o, {key(o.cx, o.key)})
             /\ o.kind = "MSet" => WroteAll(o, DOMAIN o.msrc)
             /\ (o.kind = "Get" /\ (writesBack \/ o.cx.ss = SourceStrategySourceFirst))
                   => WroteAll(o, {key(o.cx, o.key)})
             /\ (o.kind = "MGet" /\ writesBack) => WroteAll(o, DOMAIN o.msrc)

(***************************************************************************)
(* SpecBatch: one caller calls MGet, with key lists that hold a key twice, *)
(* on a facade of either strategy with a point loader or a batch loader    *)
(* that may fail; another process fills L2 from time to time.  cacheNil    *)
(* is off in SpecBatch and on in SpecBatchOn.                              *)
(***************************************************************************)
EnvBatch ==
    [callers |-> {1}, keys |-> {"a"}, lists |-> {<<"b", "a", "b">>},
     values |-> {97}, results |-> {LoaderOk(98), LoaderErr},
     short |-> TRUE, derived |-> {},
     faults |-> FALSE, history |-> FALSE, more |-> 0]

EnvBatchOn == [EnvBatch EXCEPT !.results = {LoaderOk(98), LoaderOk(NilVal)}, !.short = FALSE]

BuildersBatch(cn) ==
    {BuilderOf(ss, cn, lf, ~lf) : ss \in CacheStrategies \cup SourceStrategies, lf \in BOOLEAN}

InitBatch == InitState(BuildersBatch(FALSE), EnvBatch)

InitBatchOn == InitState(BuildersBatch(TRUE), EnvBatchOn)

NextBatch ==
    \/ Tick
    \/ \E u \in env.keys, v \in env.values : PeerSetL2(key(cx, u), v)
    \/ CallMGet
    \/ MGetSteps
    \/ MLoaderSteps
    \/ FanoutSteps
    \/ LoaderSteps
    \/ MSetSteps

SpecBatch == InitBatch /\ [][NextBatch]_vars

SpecBatchOn == InitBatchOn /\ [][NextBatch]_vars

\* Caller p's MGet on a facade of a strategy in sss has returned.
MGotUnder(p, sss) == pc[p] = "done" /\ op[p].kind = "MGet" /\ op[p].cx.ss \in sss

\* The envelope the call's cache read gave for user key u, and whether it
\* was a hit when the facade checked it.
Cached(o, u) == MapGet(o.mcache, key(o.cx, u))

IsHit(o, u) == NotExpiredAt(Cached(o, u), o.checkedAt)

\* The envelope the call's load gave for user key u.
Loaded(o, u) == MapGet(o.msrc, key(o.cx, u))

\* The result the call owes for user key u.
ResultFor(o, u) ==
    IF o.cx.ss \in SourceStrategies THEN Value(Loaded(o, u))
    ELSE IF o.cx.ss = SourceStrategyCacheOnly
       THEN (IF IsHit(o, u) THEN Value(Cached(o, u)) ELSE NilVal)
    ELSE IF o.loadErr # "" THEN Value(Cached(o, u))
    ELSE IF IsHit(o, u) THEN Value(Cached(o, u))
    ELSE Value(Loaded(o, u))

\* C8: every MGet that returns no error returns as many elements as it was
\* given keys, the i-th being the result for the i-th key, under every
\* strategy, with duplicate keys and with hits, expired entries and misses.
C8_BatchIntegrity ==
    \A p \in env.callers :
       (MGotUnder(p, CacheStrategies \cup SourceStrategies) /\ op[p].err = "") =>
          LET o == op[p]
          IN /\ Len(o.mres) = Len(o.keys)
             /\ \A i \in DOMAIN o.keys : o.mres[i] = ResultFor(o, o.keys[i])

\* An MGet with a key given twice has returned a cached value for one key
\* and a loaded value for the other.
C8_Witness ==
    \E p \in env.callers :
       /\ MGotUnder(p, {SourceStrategyCacheFirst}) /\ op[p].err = ""
       /\ Len(op[p].keys) > Cardinality(Range(op[p].keys))
       /\ op[p].loadErr = "" /\ op[p].toLoad # <<>>
       /\ \E i, j \in DOMAIN op[p].keys :
             /\ IsHit(op[p], op[p].keys[i]) /\ op[p].mres[i] = 97
             /\ ~IsHit(op[p], op[p].keys[j]) /\ op[p].mres[j] = 98

\* The strategies whose MGet reads the cache first and loads what it lacks.
Refreshing == {SourceStrategyCacheFirst, SourceStrategyExpiredBackup}

\* C9: under CacheFirst and ExpiredBackup, MGet passes to the source exactly
\* the keys whose cached envelope is absent or logically expired, writes the
\* loaded envelopes back to the cache, and returns the cached value for hit
\* keys and the loaded value for the others; when every key is a hit no
\* load occurs.
C9_LoadsAndWritesBack ==
    \A p \in env.callers :
       (MGotUnder(p, Refreshing) /\ op[p].err = "" /\ op[p].loadErr = "") =>
          LET o == op[p]
          IN /\ Range(o.toLoad) = {u \in Range(o.keys) : ~IsHit(o, u)}
             /\ o.toLoad = <<>> => (~o.invoked /\ ~o.joined)
             /\ o.toLoad # <<>> => WroteAll(o, DOMAIN o.msrc)
             /\ \A i \in DOMAIN o.keys :
                   o.mres[i] = IF IsHit(o, o.keys[i]) THEN Value(Cached(o, o.keys[i]))
                                                      ELSE Value(Loaded(o, o.keys[i]))

\* The envelope the stores gave the call for user key u: the later of what
\* the two reads returned.
Held(o, u) ==
    LET e1 == MapGet(o.mfromL1, key(o.cx, u))
        e2 == MapGet(o.mfromL2, key(o.cx, u))
    IN IF e1.ptr /\ e2.ptr THEN (IF e1.createAt > e2.createAt THEN e1 ELSE e2)
       ELSE IF e1.ptr THEN e1
       ELSE e2

\* C10: when the batch load fails, MGet under ExpiredBackup returns no error
\* and, for each key, the value of the envelope the cache holds for it,
\* expired or not, or absent if it holds none; under CacheFirst it returns
\* the load error.
C10_BatchLoadFailure ==
    \A p \in env.callers :
       (MGotUnder(p, Refreshing) /\ op[p].loadErr # "") =>
          LET o == op[p]
          IN IF o.cx.ss = SourceStrategyExpiredBackup
                THEN /\ o.err = ""
                     /\ Len(o.mres) = Len(o.keys)
                     /\ \A i \in DOMAIN o.keys : o.mres[i] = Value(Held(o, o.keys[i]))
                ELSE o.err = o.loadErr /\ o.mres = <<>>

\* An ExpiredBackup MGet whose load failed has returned the value of an
\* expired envelope for one key and absent for a key the cache does not hold.
C10_Witness ==
    \E p \in env.callers :
       /\ MGotUnder(p, {SourceStrategyExpiredBackup})
       /\ op[p].loadErr # "" /\ op[p].err = ""
       /\ \E i, j \in DOMAIN op[p].keys :
             /\ Held(op[p], op[p].keys[i]).ptr /\ ~IsHit(op[p], op[p].keys[i])
             /\ op[p].mres[i] # NilVal
             /\ ~Held(op[p], op[p].keys[j]).ptr /\ op[p].mres[j] = NilVal

(***************************************************************************)
(* SpecNoLoader: one caller calls MGet for three keys on a CacheFirst or   *)
(* ExpiredBackup facade built with no loader at all, while a peer sets two *)
(* of the keys in L2 and the clock advances.                               *)
(***************************************************************************)
EnvNoLoader ==
    [callers |-> {1}, keys |-> {"a", "b"}, lists |-> {<<"b", "a", "c">>},
     values |-> {97, 98}, results |-> {},
     short |-> FALSE, derived |-> {},
     faults |-> FALSE, history |-> FALSE, more |-> 0]

BuildersNoLoader ==
    {BuilderOf(ss, FALSE, FALSE, FALSE) :
        ss \in {SourceStrategyCacheFirst, SourceStrategyExpiredBackup}}

InitNoLoader == InitState(BuildersNoLoader, EnvNoLoader)

NextNoLoader ==
    \/ Tick
    \/ \E u \in env.keys, v \in env.values : PeerSetL2(key(cx, u), v)
    \/ CallMGet
    \/ MGetSteps

SpecNoLoader == InitNoLoader /\ [][NextNoLoader]_vars

\* The facade has neither a loader nor a multiLoader.
NoLoaders(c) == ~c.loaderFn /\ ~c.mLoaderFn

\* The call's cache read gave a fresh envelope for its i-th key, an expired
\* one for its j-th and none for its k-th.
FreshExpiredAbsent(o, i, j, k) ==
    /\ IsHit(o, o.keys[i])
    /\ Held(o, o.keys[j]).ptr /\ ~IsHit(o, o.keys[j])
    /\ ~Held(o, o.keys[k]).ptr

\* C11 as stated: under CacheFirst with neither a loader nor a multiLoader,
\* MGet over a key with a fresh envelope, a key with an expired envelope and
\* a key with no envelope returns, without error, three elements in input
\* order: the fresh value, the expired envelope's value, and absent.
C11_NoLoaderMGet ==
    \A p \in env.callers :
       (MGotUnder(p, {SourceStrategyCacheFirst}) /\ NoLoaders(op[p].cx)) =>
          LET o == op[p]
          IN \A i, j, k \in DOMAIN o.keys :
                FreshExpiredAbsent(o, i, j, k) =>
                   /\ o.err = ""
                   /\ Len(o.mres) = 3
                   /\ o.mres[i] = Value(Held(o, o.keys[i]))
                   /\ o.mres[j] = Value(Held(o, o.keys[j]))
                   /\ o.mres[k] = NilVal

\* C11, amended: with neither a loader nor a multiLoader, MGet over a key
\* with a fresh envelope, a key with an expired envelope and a key with no
\* envelope fails under CacheFirst with the error "loader not set" and
\* returns no slice; under ExpiredBackup it returns, without error, three
\* elements in input order: the fresh value, the expired envelope's value,
\* and absent.
C11_NoLoaderMGetAmended ==
    \A p \in env.callers :
       (MGotUnder(p, {SourceStrategyCacheFirst, SourceStrategyExpiredBackup})
           /\ NoLoaders(op[p].cx)) =>
          LET o == op[p]
          IN \A i, j, k \in DOMAIN o.keys :
                FreshExpiredAbsent(o, i, j, k) =>
                   IF o.cx.ss = SourceStrategyCacheFirst
                      THEN o.err = "loader not set" /\ o.mres = <<>>
                      ELSE /\ o.err = ""
                           /\ Len(o.mres) = 3
                           /\ o.mres[i] = Value(Held(o, o.keys[i])) /\ o.mres[i] # NilVal
                           /\ o.mres[j] = Value(Held(o, o.keys[j])) /\ o.mres[j] # NilVal
                           /\ o.mres[k] = NilVal

\* A CacheFirst MGet on a facade without loaders has found a fresh envelope,
\* an expired one and a missing one, and has failed.
C11_Witness ==
    \E p \in env.callers :
       /\ MGotUnder(p, {SourceStrategyCacheFirst}) /\ NoLoaders(op[p].cx)
       /\ \E i, j, k \in DOMAIN op[p].keys : FreshExpiredAbsent(op[p], i, j, k)
       /\ op[p].err = "loader not set"

\* The same MGet under ExpiredBackup has returned the three elements.
C11_BackupReached ==
    \E p \in env.callers :
       /\ MGotUnder(p, {SourceStrategyExpiredBackup}) /\ NoLoaders(op[p].cx)
       /\ \E i, j, k \in DOMAIN op[p].keys : FreshExpiredAbsent(op[p], i, j, k)
       /\ op[p].err = "" /\ Len(op[p].mres) = 3

(***************************************************************************)
(* SpecMismatch: one caller uses Get, MGet and MSet on a facade built with *)
(* a multiLoader only; the caller may pass one value too few and the       *)
(* multiLoader may return one value too few.                               *)
(***************************************************************************)
EnvMismatch ==
    [callers |-> {1}, keys |-> {"a"}, lists |-> {<<"a", "b">>},
     values |-> {97}, results |-> {LoaderOk(98)},
     short |-> TRUE, derived |-> {},
     faults |-> FALSE, history |-> TRUE, more |-> 0]

BuildersMismatch ==
    {BuilderOf(ss, FALSE, FALSE, TRUE) :
        ss \in {SourceStrategyCacheFirst, SourceStrategySourceOnly, SourceStrategyExpiredBackup}}

InitMismatch == InitState(BuildersMismatch, EnvMismatch)

NextMismatch ==
    \/ Tick
    \/ \E u \in env.keys, v \in env.values : PeerSetL2(key(cx, u), v)
    \/ CallGet
    \/ CallMGet
    \/ CallMSet
    \/ GetSteps
    \/ SetSteps
    \/ MGetSteps
    \/ MLoaderSteps
    \/ MSetSteps

SpecMismatch == InitMismatch /\ [][NextMismatch]_vars

\* The error of a batch load whose multiLoader returned a list of another
\* length than its keys.
LoadMismatch == "mloader fn err: len(keys) != len(values)"

\* The call made no store write: no Set or MSet reached a store.
NoStoreWrite(o) == o.wrote = {} /\ o.tried = <<>>

\* C12: a length mismatch is rejected without any store write: an MSet with
\* len(keys) # len(values) fails with "keys values length not equal", a batch
\* load whose multiLoader returns a list of another length fails with the
\* length-mismatch error (which the call returns, unless ExpiredBackup falls
\* back on the cache), and in both cases the call writes neither L1 nor L2.
C12_MismatchRejected ==
    \A p \in env.callers :
       pc[p] = "done" =>
          LET o == op[p]
          IN /\ (o.kind = "MSet" /\ Len(o.keys) # Len(o.vals)) =>
                   (o.err = "keys values length not equal" /\ NoStoreWrite(o))
             /\ o.loadErr = LoadMismatch =>
                   /\ NoStoreWrite(o)
                   /\ o.cx.ss # SourceStrategyExpiredBackup => o.err = LoadMismatch

\* An MSet with one value too few has failed, and then an MGet whose
\* multiLoader returned one value too few has failed, with L2 holding an
\* envelope.
C12_Witness ==
    \E p \in env.callers :
       /\ pc[p] = "done" /\ op[p].kind = "MGet" /\ op[p].loadErr = LoadMismatch
       /\ op[p].err = LoadMismatch
       /\ op[p].prev.kind = "MSet" /\ Len(op[p].prev.keys) # Len(op[p].prev.vals)
       /\ op[p].prev.err = "keys values length not equal"
       /\ \E k \in StoreKeys : l2[k] # NoFrame

(***************************************************************************)
(* SpecTiers: one caller uses Get and Set on one key of a CacheFirst,      *)
(* CacheOnly or ExpiredBackup facade with a point loader, while a peer     *)
(* sets the key in L2, the stores drop entries and the clock advances; the *)
(* run keeps each call's previous call.                                    *)
(***************************************************************************)
EnvTiers ==
    [callers |-> {1}, keys |-> {"a"}, lists |-> {},
     values |-> {97}, results |-> {LoaderOk(98)},
     short |-> FALSE, derived |-> {},
     faults |-> FALSE, history |-> TRUE, more |-> 0]

BuildersTiers == {BuilderOf(ss, FALSE, TRUE, FALSE) : ss \in CacheStrategies}

InitTiers == InitState(BuildersTiers, EnvTiers)

NextTiers ==
    \/ Environment
    \/ \E u \in env.keys, v \in env.values : PeerSetL2(key(cx, u), v)
    \/ CallGet
    \/ CallSet
    \/ GetSteps
    \/ LoaderSteps
    \/ SetSteps

SpecTiers == InitTiers /\ [][NextTiers]_vars

\* Caller p's CacheFirst Get has returned; its previous call was a CacheFirst
\* Get for the same key that missed L1, hit a non-expired envelope in L2 and
\* back-filled L1 with it, and L1 still gave that envelope to this Get (its
\* delete-TTL has not run out).
AfterBackfill(p) ==
    /\ GotUnder(p, SourceStrategyCacheFirst)
    /\ op[p].prev.kind = "Get" /\ op[p].prev.cx.ss = SourceStrategyCacheFirst
    /\ op[p].prev.key = op[p].key
    /\ op[p].prev.reads = <<"l1", "l2">> /\ op[p].prev.backfilled
    /\ op[p].fromL1.ptr /\ op[p].fromL1 = op[p].prev.fromL2

\* The call read only L1 and neither ran the loader nor waited for it.
OnlyL1(o) == o.reads = <<"l1">> /\ ~o.invoked /\ ~o.joined

\* C13 as stated: after a CacheFirst Get that missed L1 and hit a
\* non-expired envelope in L2, a subsequent Get for the same key within L1's
\* delete-TTL window reads only L1: L2 is not queried and the loader is not
\* invoked.
C13_TwoTierFreshness ==
    \A p \in env.callers : AfterBackfill(p) => OnlyL1(op[p])

\* C13, amended: such a subsequent Get reads only L1 and does not invoke the
\* loader, returning the back-filled value, as long as the envelope has not
\* logically expired; if the envelope has expired when the Get reads L1, the
\* Get queries L2 as well.
C13_TwoTierFreshnessAmended ==
    \A p \in env.callers :
       AfterBackfill(p) =>
          LET o == op[p]
          IN /\ NotExpiredAt(o.fromL1, o.checkedAt) =>
                   (OnlyL1(o) /\ o.err = "" /\ o.res = Value(o.prev.fromL2))
             /\ NotExpiredAt(o.fromL1, o.readAt) => o.reads = <<"l1">>
             /\ ~NotExpiredAt(o.fromL1, o.readAt) => o.reads = <<"l1", "l2">>

\* A Get after a back-filling Get has read only L1 and returned the value.
C13_Witness ==
    \E p \in env.callers :
       AfterBackfill(p) /\ OnlyL1(op[p]) /\ op[p].res = 97 /\ op[p].err = ""

\* A Get after a back-filling Get has found the back-filled envelope expired
\* and has read L2 as well.
C13_ExpiredReached ==
    \E p \in env.callers : AfterBackfill(p) /\ op[p].reads = <<"l1", "l2">>

(***************************************************************************)
(* SpecRace: caller 1 calls Get and caller 2 calls Set or Del, for one key *)
(* of a CacheFirst facade, concurrently, after a peer has set the key in   *)
(* L2; the clock stands still, so that no envelope expires.                *)
(***************************************************************************)
EnvRace ==
    [callers |-> AllCallers, keys |-> {"a"}, lists |-> {},
     values |-> {97}, results |-> {LoaderOk(98)},
     short |-> FALSE, derived |-> {},
     faults |-> FALSE, history |-> TRUE, more |-> 1]

\* The value the peer sets.
PeerValue == 99

BuildersRace == {BuilderOf(SourceStrategyCacheFirst, FALSE, TRUE, FALSE)}

InitRace == InitState(BuildersRace, EnvRace)

NextRace ==
    \/ \E u \in env.keys : PeerSetL2(key(cx, u), PeerValue)
    \/ \E k \in env.keys : StartGet(1, cx, k)
    \/ \E k \in env.keys, v \in env.values : StartSet(2, cx, k, v)
    \/ \E k \in env.keys : StartDel(2, cx, k)
    \/ GetSteps
    \/ LoaderSteps
    \/ SetSteps
    \/ DelSteps

SpecRace == InitRace /\ [][NextRace]_vars

\* Caller 1's first Get back-filled L1 from L2 while caller 2's call (of the
\* given kind, for the same key) was running; both had returned when caller
\* 1 started its second Get, which has returned too.
RacedWith(kind) ==
    /\ pc[1] = "done" /\ op[1].kind = "Get"
    /\ op[1].prev.kind = "Get" /\ op[1].prev.backfilled /\ op[1].prev.seq = 1
    /\ pc[2] = "done" /\ op[2].kind = kind /\ op[2].key = op[1].key
    /\ op[2].seq = 2 /\ op[2].during = {1} /\ op[2].err = ""
    /\ op[1].seq = 3 /\ op[1].during = {}

\* C14: when a Get's L2-to-L1 back-fill races with a concurrent Set(k, v) or
\* Del(k), then once these operations have completed the next Get(k)
\* reflects the Set or the Del: it returns v, respectively finds no cached
\* envelope, never the older envelope that was back-filled.
C14_RaceResolved ==
    /\ RacedWith("Set") => (op[1].res = op[2].val /\ op[1].err = "")
    /\ RacedWith("Del") => (~op[1].fromL1.ptr /\ ~op[1].fromL2.ptr /\ ~op[1].hit)

(***************************************************************************)
(* SpecFaults: one caller uses Get, Set and MSet on a CacheFirst facade    *)
(* with a point loader whose stores may fail: a read may return an error   *)
(* or a frame cut below the header, a write may return an error.           *)
(***************************************************************************)
EnvFaults ==
    [callers |-> {1}, keys |-> {"a"}, lists |-> {<<"a", "b">>},
     values |-> {97}, results |-> {LoaderOk(98), LoaderErr},
     short |-> FALSE, derived |-> {},
     faults |-> TRUE, history |-> FALSE, more |-> 0]

BuildersFaults == {BuilderOf(SourceStrategyCacheFirst, FALSE, TRUE, FALSE)}

InitFaults == InitState(BuildersFaults, EnvFaults)

NextFaults ==
    \/ Tick
    \/ \E u \in env.keys, v \in env.values : PeerSetL2(key(cx, u), v)
    \/ CallGet
    \/ CallSet
    \/ CallMSet
    \/ GetSteps
    \/ LoaderSteps
    \/ SetSteps
    \/ MSetSteps

SpecFaults == InitFaults /\ [][NextFaults]_vars

\* The call's loader ran and succeeded.
LoadSucceeded(o) == (o.invoked \/ o.joined) /\ o.loadErr = "" /\ o.fromSource.ptr

\* C15: cache-side faults never reach the caller of a read: a store error or
\* a frame shorter than 17 bytes on a cache read is treated as a miss, and a
\* failed write of the loaded envelope is ignored, so a CacheFirst Get whose
\* loader succeeds returns the loaded value with no error, whatever the
\* stores answered.
C15_FaultsHidden ==
    \A p \in env.callers :
       GotUnder(p, SourceStrategyCacheFirst) =>
          LET o == op[p]
          IN /\ (\E r \in {"err", "short"} : <<"l1", r>> \in o.faulted) => ~o.fromL1.ptr
             /\ (\E r \in {"err", "short"} : <<"l2", r>> \in o.faulted) => ~o.fromL2.ptr
             /\ LoadSucceeded(o) => (o.err = "" /\ o.res = o.fromSource.val)

\* A CacheFirst Get has met a cut frame in L1, a read error in L2 and a
\* failed write of the loaded envelope, and has returned the loaded value.
C15_Witness ==
    \E p \in env.callers :
       /\ GotUnder(p, SourceStrategyCacheFirst) /\ LoadSucceeded(op[p])
       /\ <<"l1", "short">> \in op[p].faulted /\ <<"l2", "err">> \in op[p].faulted
       /\ op[p].failed # {}
       /\ op[p].err = "" /\ op[p].res = 98

\* Caller p's Set of a value that is written, or MSet of as many values as
\* keys, has returned.
HasSet(p) ==
    /\ pc[p] = "done"
    /\ \/ op[p].kind = "Set" /\ op[p].toSet.ptr
       \/ op[p].kind = "MSet" /\ Len(op[p].keys) = Len(op[p].vals)

\* The storage keys the call was to write.
SetKeys(o) == IF o.kind = "Set" THEN {key(o.cx, o.key)} ELSE DOMAIN o.msrc

\* C16: Set and MSet call L2 before L1, call L1 even when the L2 write
\* failed, and return an error if and only if the write of at least one
\* layer failed; a layer whose write did not fail holds the entries.
C16_WriteFanOut ==
    \A p \in env.callers :
       HasSet(p) =>
          LET o == op[p]
          IN /\ o.tried = <<"l2", "l1">>
             /\ o.err # "" <=> o.failed # {}
             /\ \A layer \in {"l1", "l2"}, k \in SetKeys(o) :
                   layer \in o.failed <=> <<layer, k>> \notin o.wrote

\* A Set whose L2 write failed has written L1 and returned an error, and so
\* has an MSet.
C16_Witness ==
    \E p \in env.callers :
       /\ HasSet(p) /\ op[p].kind = "Set"
       /\ op[p].failed = {"l2"} /\ op[p].tried = <<"l2", "l1">>
       /\ <<"l1", key(op[p].cx, op[p].key)>> \in op[p].wrote
       /\ l1[key(op[p].cx, op[p].key)] # NoFrame
       /\ op[p].err # ""

(***************************************************************************)
(* SpecDel: one caller uses Set, Del, MDel and Get on a CacheOnly facade   *)
(* whose stores may fail; nothing else touches the stores, and the run     *)
(* keeps each call's previous call.                                        *)
(***************************************************************************)
EnvDel ==
    [callers |-> {1}, keys |-> {"a"}, lists |-> {<<"a", "b">>},
     values |-> {97}, results |-> {},
     short |-> FALSE, derived |-> {},
     faults |-> TRUE, history |-> TRUE, more |-> 1]

BuildersDel == {BuilderOf(SourceStrategyCacheOnly, FALSE, TRUE, FALSE)}

InitDel == InitState(BuildersDel, EnvDel)

NextDel ==
    \/ CallSet
    \/ CallDel
    \/ CallMDel
    \/ CallGet
    \/ SetSteps
    \/ DelSteps
    \/ MDelSteps
    \/ GetSteps

SpecDel == InitDel /\ [][NextDel]_vars

\* The storage keys a Del or MDel was to delete.
DelKeys(o) ==
    IF o.kind = "Del" THEN {key(o.cx, o.key)}
    ELSE IF o.kind = "MDel" THEN Range(keys(o.cx, o.keys))
    ELSE {}

\* C17: after Del(k), or MDel of a list containing k, has returned without
\* error, and with no other operation on k, neither L1 nor L2 holds an
\* envelope under k's namespaced key, and a CacheOnly Get(k) that follows
\* returns absent.
C17_DeletedIsGone ==
    \A p \in env.callers :
       /\ (pc[p] = "done" /\ op[p].kind \in {"Del", "MDel"} /\ op[p].err = "") =>
             \A k \in DelKeys(op[p]) : l1[k] = NoFrame /\ l2[k] = NoFrame
       /\ (GotUnder(p, SourceStrategyCacheOnly) /\ op[p].prev.kind \in {"Del", "MDel"}
              /\ op[p].prev.err = "" /\ key(op[p].cx, op[p].key) \in DelKeys(op[p].prev)) =>
             (op[p].res = NilVal /\ op[p].err = "" /\ ~op[p].fromCache.ptr)

\* A Del has removed the envelope from L2 and from L1 without error, and the
\* CacheOnly Get that followed has returned absent.
C17_Witness ==
    \E p \in env.callers :
       /\ GotUnder(p, SourceStrategyCacheOnly) /\ op[p].prev.kind = "Del"
       /\ op[p].prev.err = ""
       /\ op[p].prev.removed = {<<"l2", key(op[p].cx, op[p].key)>>,
                                <<"l1", key(op[p].cx, op[p].key)>>}
       /\ op[p].res = NilVal /\ op[p].err = ""

\* The same after an MDel.
C17_BatchReached ==
    \E p \in env.callers :
       /\ GotUnder(p, SourceStrategyCacheOnly) /\ op[p].prev.kind = "MDel"
       /\ op[p].prev.err = ""
       /\ op[p].prev.removed = {<<"l2", key(op[p].cx, op[p].key)>>,
                                <<"l1", key(op[p].cx, op[p].key)>>}
       /\ op[p].res = NilVal /\ op[p].err = ""

\* What a store gives back for the entry e once written.
Stored(e) == deserializeEntry(Serialize(e))

\* Caller p's Get under a cache-reading strategy has returned; its previous
\* call was a Set of a non-null value under the same key that returned
\* without error; no store had dropped the envelope (the first layer that
\* gave this Get an envelope gave the one that was set) and the envelope had
\* not logically expired when the facade checked it.
AfterSetHeld(p) ==
    /\ pc[p] = "done" /\ op[p].kind = "Get" /\ op[p].cx.ss \in CacheStrategies
    /\ op[p].prev.kind = "Set" /\ op[p].prev.key = op[p].key
    /\ op[p].prev.val # NilVal /\ op[p].prev.err = ""
    /\ \/ op[p].fromL1 = Stored(op[p].prev.toSet)
       \/ ~op[p].fromL1.ptr /\ op[p].fromL2 = Stored(op[p].prev.toSet)
    /\ NotExpiredAt(op[p].prev.toSet, op[p].checkedAt)

\* C18: read-your-writes: after Set(k, v) with a non-null v has returned
\* without error, and with no other operation on k, a Get(k) under
\* CacheFirst, CacheOnly or ExpiredBackup returns v without invoking the
\* loader, until the envelope logically expires or a store drops it.
C18_ReadYourWrites ==
    \A p \in env.callers :
       AfterSetHeld(p) =>
          /\ op[p].res = op[p].prev.val /\ op[p].err = ""
          /\ ~op[p].invoked /\ ~op[p].joined

\* A Get after a Set has returned the value that was set, read from L2 after
\* L1 had dropped the envelope.
C18_Witness ==
    \E p \in env.callers :
       /\ AfterSetHeld(p) /\ op[p].res = 97 /\ ~op[p].invoked
       /\ ~op[p].fromL1.ptr /\ op[p].fromL2.ptr

(***************************************************************************)
(* SpecCacheOnly: one caller uses Get, MGet and Set on a CacheOnly facade  *)
(* built with a loader and a multiLoader, while a peer sets keys in L2,    *)
(* the stores drop entries and the clock advances.                         *)
(***************************************************************************)
EnvCacheOnly ==
    [callers |-> {1}, keys |-> {"a"}, lists |-> {<<"a", "b">>},
     values |-> {97}, results |-> {LoaderOk(98)},
     short |-> FALSE, derived |-> {},
     faults |-> FALSE, history |-> FALSE, more |-> 0]

BuildersCacheOnly == {BuilderOf(SourceStrategyCacheOnly, FALSE, TRUE, TRUE)}

InitCacheOnly == InitState(BuildersCacheOnly, EnvCacheOnly)

NextCacheOnly ==
    \/ Environment
    \/ \E u \in env.keys, v \in env.values : PeerSetL2(key(cx, u), v)
    \/ CallGet
    \/ CallMGet
    \/ CallSet
    \/ GetSteps
    \/ MGetSteps
    \/ SetSteps

SpecCacheOnly == InitCacheOnly /\ [][NextCacheOnly]_vars

\* No loader and no multiLoader has been invoked, and none is running.
NoLoad ==
    /\ flights = {}
    /\ \A k \in UserKeys : loads[k] = 0
    /\ \A p \in env.callers :
          /\ ~op[p].invoked /\ ~op[p].joined
          /\ pc[p] \notin {"loading", "waiting", "mloading", "mwaiting", "fanout"}

\* Neither store gave the call a non-expired envelope for user key u.
NoneFresh(o, u) ==
    IF o.kind = "Get"
       THEN ~NotExpiredAt(o.fromL1, o.checkedAt) /\ ~NotExpiredAt(o.fromL2, o.checkedAt)
       ELSE /\ ~NotExpiredAt(MapGet(o.mfromL1, key(o.cx, u)), o.checkedAt)
            /\ ~NotExpiredAt(MapGet(o.mfromL2, key(o.cx, u)), o.checkedAt)

\* C19: under CacheOnly, Get and MGet never invoke the loader or the
\* multiLoader; they return no error, and absent for a key with no
\* non-expired envelope.
C19_CacheOnlyNeverLoads ==
    /\ NoLoad
    /\ \A p \in env.callers :
          /\ GotUnder(p, SourceStrategyCacheOnly) =>
                /\ op[p].err = ""
                /\ NoneFresh(op[p], op[p].key) => op[p].res = NilVal
          /\ MGotUnder(p, {SourceStrategyCacheOnly}) =>
                /\ op[p].err = "" /\ Len(op[p].mres) = Len(op[p].keys)
                /\ \A i \in DOMAIN op[p].keys :
                      NoneFresh(op[p], op[p].keys[i]) => op[p].mres[i] = NilVal

\* A CacheOnly MGet has returned absent for a key whose envelope had expired
\* and for a key without envelope, with no error and no load.
C19_Witness ==
    \E p \in env.callers :
       /\ MGotUnder(p, {SourceStrategyCacheOnly}) /\ op[p].err = ""
       /\ op[p].mres = <<NilVal, NilVal>>
       /\ Held(op[p], op[p].keys[1]).ptr /\ ~Held(op[p], op[p].keys[2]).ptr
       /\ NoLoad

\* A CacheOnly Get has returned absent for a key whose envelope had expired.
C19_GetReached ==
    \E p \in env.callers :
       /\ GotUnder(p, SourceStrategyCacheOnly) /\ op[p].err = "" /\ op[p].res = NilVal
       /\ op[p].fromCache.ptr

(***************************************************************************)
(* SpecSource: one caller uses Get, MGet and MSet on a SourceOnly or       *)
(* SourceFirst facade with a point loader or a multiLoader that may fail,  *)
(* while a peer sets a key in L2 and the clock advances.                   *)
(***************************************************************************)
EnvSource ==
    [callers |-> {1}, keys |-> {"a"}, lists |-> {<<"a", "b">>},
     values |-> {97}, results |-> {LoaderOk(98), LoaderErr},
     short |-> FALSE, derived |-> {},
     faults |-> FALSE, history |-> FALSE, more |-> 0]

BuildersSource ==
    {BuilderOf(ss, FALSE, point, ~point) : ss \in SourceStrategies, point \in BOOLEAN}

InitSource == InitState(BuildersSource, EnvSource)

NextSource ==
    \/ Tick
    \/ \E u \in env.keys, v \in env.values : PeerSetL2(key(cx, u), v)
    \/ CallGet
    \/ CallMGet
    \/ CallMSet
    \/ GetSteps
    \/ LoaderSteps
    \/ MLoaderSteps
    \/ FanoutSteps
    \/ SetSteps
    \/ MSetSteps

SpecSource == InitSource /\ [][NextSource]_vars

\* Caller p is in, or has returned from, a Get under SourceOnly or an MGet
\* under SourceOnly or SourceFirst.
SourceCall(p) ==
    \/ op[p].kind = "Get" /\ op[p].cx.ss = SourceStrategySourceOnly
    \/ op[p].kind = "MGet" /\ op[p].cx.ss \in SourceStrategies

\* The positions of a call at a store read or a store write.
StoreSteps ==
    {"readL1", "readL2", "backfill", "check", "setL2", "setL1",
     "mreadL1", "mreadL2", "mbackfill", "mcheck", "msetL2", "msetL1"}

C20_GetReached ==
    \E p \in env.callers :
       /\ GotUnder(p, SourceStrategySourceOnly) /\ op[p].res = 98
       /\ l2[key(op[p].cx, op[p].key)] # NoFrame

(***************************************************************************)
(* The builder on its own: newBuilder, the With options, Build.            *)
(***************************************************************************)
\* The cache at rest: a run that exercises one function makes no call.
CacheIdle ==
    /\ now = 0
    /\ l1 = EmptyStore
    /\ l2 = EmptyStore
    /\ env = Env
    /\ pc = [p \in Env.callers |-> "idle"]
    /\ op = [p \in Env.callers |-> IdleOp]
    /\ calls = 0
    /\ flights = {}
    /\ loads = [k \in UserKeys |-> 0]

Namespaces == {"", "default", "shop"}

\* The options that take a store or a function; nil is a legal argument.
BuilderOptions == {"l1", "l2", "genKeyFn", "loaderFn", "mLoaderFn"}

\* WithNamespace, WithL1, WithL2, WithGenKeyFn, WithLoader, WithMultiLoader:
\* a copy of the builder with one field replaced.
WithOption ==
    /\ \/ \E ns \in Namespaces : b' = [b EXCEPT !.namespace = ns]
       \/ \E f \in BuilderOptions, v \in BOOLEAN : b' = [b EXCEPT ![f] = v]
    /\ b' # b
    /\ UNCHANGED <<now, env, calls, cacheVars, probe, redis, table, lk>>

\* Build on the builder as it stands; the builder itself is left as it is.
BuildCall ==
    /\ probe' = [fn |-> "Build", arg |-> b, err |-> BuildError(b),
                 cx |-> IF BuildError(b) = "" THEN Build(b) ELSE NilCx]
    /\ probe' # probe
    /\ UNCHANGED <<now, b, env, calls, cacheVars, redis, table, lk>>

InitBuild == CacheIdle /\ b = DefaultBuilder /\ AuxIdle

NextBuild ==
    \/ WithOption
    \/ BuildCall

SpecBuild == InitBuild /\ [][NextBuild]_vars

\* The preconditions of Build a builder violates, by their place in the order.
Violated(bb) ==
    {i \in 1..4 :
        \/ i = 1 /\ bb.namespace = ""
        \/ i = 2 /\ ~bb.genKeyFn
        \/ i = 3 /\ bb.l2 /\ ~bb.l1
        \/ i = 4 /\ ~(bb.l1 \/ bb.l2 \/ bb.loaderFn \/ bb.mLoaderFn)}

FirstViolated(bb) ==
    IF Violated(bb) = {} THEN 0
    ELSE CHOOSE i \in Violated(bb) : \A j \in Violated(bb) : i <= j

AllBuilders ==
    {[DefaultBuilder EXCEPT !.namespace = ns, !.genKeyFn = g, !.l1 = s1, !.l2 = s2,
                            !.loaderFn = lf, !.mLoaderFn = mf] :
        ns \in Namespaces, g \in BOOLEAN, s1 \in BOOLEAN, s2 \in BOOLEAN,
        lf \in BOOLEAN, mf \in BOOLEAN}

\* C21: Build fails exactly when a precondition is violated, and then with the
\* error of the first one violated in the order namespace, key function, L2
\* without L1, nothing configured; the errors of different preconditions differ,
\* and every other builder yields a facade and no error.
C21_BuildPreconditions ==
    probe.fn = "Build" =>
        /\ (probe.err = "") = (Violated(probe.arg) = {})
        /\ probe.err = "" => probe.cx = Build(probe.arg) /\ probe.cx.cache.ptr
        /\ probe.err # "" => probe.cx = NilCx
        /\ FirstViolated(probe.arg) = 1 => probe.err = "namespace not set"
        /\ FirstViolated(probe.arg) = 2 => probe.err = "gen cacheKey fn not set"
        /\ FirstViolated(probe.arg) = 3 => probe.err = "l1 cacher not set"
        /\ FirstViolated(probe.arg) = 4 => probe.err = "cacher and loader not set"
        /\ \A other \in AllBuilders :
              FirstViolated(other) # FirstViolated(probe.arg) => BuildError(other) # probe.err

\* Build was called on a builder that violates the first and the third
\* precondition at once.
C21_Witness ==
    /\ probe.fn = "Build"
    /\ Violated(probe.arg) = {1, 3}
    /\ probe.err = "namespace not set"

\* Build succeeded on a builder that has no store at all, only a loader.
C21_LoaderOnlyReached ==
    /\ probe.fn = "Build"
    /\ probe.err = ""
    /\ ~probe.arg.l1 /\ ~probe.arg.l2 /\ probe.arg.loaderFn

(***************************************************************************)
(* The envelope on its own: newEntry, Serialize, deserializeEntry, Value   *)
(* and IsExpired, on one envelope while the clock runs.                    *)
(***************************************************************************)
\* Logical TTLs, in nanoseconds: negative, zero, below a millisecond, whole
\* and fractional milliseconds.
EntryTTLs == {-NsPerMs, -1, 0, 1, NsPerMs, NsPerMs + 500000, 2 * NsPerMs}

\* Millisecond timestamps an envelope may carry: around the clock of the run,
\* wider than one byte and than two, and before the epoch.
EntryCreateAts == {-1, 0, 1, 300, 70000}

EntryValues == {NilVal, 97, 98}

\* probe: the envelope e made by newEntry from val, the frame Serialize gave
\* for it, the envelope deserializeEntry gave back for the frame, and the last
\* answer of e.IsExpired with the time it was given at.
InitEntry ==
    /\ CacheIdle
    /\ b = DefaultBuilder
    /\ \E val \in EntryValues, ttl \in EntryTTLs, c \in EntryCreateAts :
          probe = [fn |-> "entry", val |-> val, e |-> newEntry(val, ttl, c),
                   frame |-> NoFrame, back |-> NilEntry,
                   asked |-> FALSE, expired |-> FALSE, at |-> 0]
    /\ redis = <<>>
    /\ table = {}
    /\ lk = <<>>

SerializeCall ==
    /\ probe.frame = NoFrame
    /\ probe' = [probe EXCEPT !.e = Serialized(probe.e), !.frame = Serialize(probe.e)]
    /\ UNCHANGED <<now, b, env, calls, cacheVars, redis, table, lk>>

DeserializeCall ==
    /\ probe.frame # NoFrame
    /\ ~probe.back.ptr
    /\ probe' = [probe EXCEPT !.back = deserializeEntry(probe.frame)]
    /\ UNCHANGED <<now, b, env, calls, cacheVars, redis, table, lk>>

\* The envelope read back is itself serialized again.
SerializeAgain ==
    /\ probe.back.ptr
    /\ probe.back # probe.e
    /\ probe' = [probe EXCEPT !.e = probe.back, !.frame = NoFrame, !.back = NilEntry]
    /\ UNCHANGED <<now, b, env, calls, cacheVars, redis, table, lk>>

IsExpiredCall ==
    /\ probe' = [probe EXCEPT !.asked = TRUE, !.expired = IsExpired(probe.e, now), !.at = now]
    /\ probe' # probe
    /\ UNCHANGED <<now, b, env, calls, cacheVars, redis, table, lk>>

NextEntry ==
    \/ Tick
    \/ SerializeCall
    \/ DeserializeCall
    \/ SerializeAgain
    \/ IsExpiredCall

SpecEntry == InitEntry /\ [][NextEntry]_vars

\* C22: the envelope deserializeEntry gives for the frame of an envelope has
\* the same createAt, ttl and isNil, and its Value is the value the envelope
\* was made from (nil for a null envelope), without a decoding panic.
C22_EnvelopeRoundTrip ==
    (probe.fn = "entry" /\ probe.frame # NoFrame /\ probe.back # NilEntry) =>
        /\ probe.back.ptr
        /\ probe.back.createAt = probe.e.createAt
        /\ probe.back.ttl = probe.e.ttl
        /\ probe.back.isNil = probe.e.isNil
        /\ IsNil(probe.back) = (probe.val = NilVal)
        /\ ~ValuePanics(probe.back)
        /\ Value(probe.back) = probe.val

\* A non-null envelope with a negative ttl and a three-byte createAt came back.
C22_Witness ==
    /\ probe.fn = "entry"
    /\ probe.back.ptr
    /\ probe.val = 97
    /\ probe.e.ttl = -1
    /\ probe.e.createAt = 70000
    /\ Value(probe.back) = 97

\* A null envelope with a createAt before the epoch came back.
C22_NullReached ==
    /\ probe.fn = "entry"
    /\ probe.back.ptr
    /\ probe.val = NilVal
    /\ probe.e.createAt = -1

\* The last millisecond at which an envelope with a positive ttl is not expired.
Deadline(e) == e.createAt + (e.ttl \div NsPerMs)

\* C23: every answer of IsExpired is false for an envelope with ttl <= 0; for
\* one with ttl > 0 it is false when asked at a time up to createAt + ttl(ms)
\* and true when asked later; and as the clock advances, an answer of true is
\* never followed by an answer of false.
C23_ExpiryMonotonic ==
    [][probe.fn = "entry" /\ probe'.asked =>
          /\ probe'.e.ttl <= 0 => ~probe'.expired
          /\ probe'.e.ttl > 0 => (probe'.expired = (probe'.at > Deadline(probe'.e)))
          /\ (probe.asked /\ probe.expired) => probe'.expired]_vars

\* IsExpired answered false at the deadline of an envelope, and the envelope
\* is now past it.
C23_Witness ==
    /\ probe.fn = "entry"
    /\ probe.e.ttl = NsPerMs + 500000
    /\ probe.e.createAt = 0
    /\ probe.asked /\ ~probe.expired /\ probe.at = 1
    /\ now = 2

\* IsExpired answered true for that envelope.
C23_ExpiredReached ==
    /\ probe.fn = "entry"
    /\ probe.e.ttl = NsPerMs + 500000
    /\ probe.e.createAt = 0
    /\ probe.asked /\ probe.expired /\ probe.at = 2

(***************************************************************************)
(* wrapper.getDelTTL: the delete-TTL a store write hands to each layer.    *)
(* Durations are in nanoseconds.                                           *)
(***************************************************************************)
\* rand.Int63n(1000): the jitter, in whole milliseconds.
JitterMs == 1000

\* time.Duration(float64(d) * 1.3): the product, truncated to an integer.
Scaled(d) == (13 * d) \div 10

\* A delete-TTL that scales the base for the first layer as well.
getDelTTLScaled(w, level, r) == Scaled(w.delTTL) + r * NsPerMs

\* r is what rand.Int63n(1000) returned to this call.
getDelTTL(w, level, r) ==
    IF level = 1 THEN w.delTTL + r * NsPerMs
    ELSE Scaled(w.delTTL) + r * NsPerMs

\* Configured delete-TTLs: zero, a few nanoseconds, whole milliseconds.
DelTTLs == {0, 1, 3, 10, NsPerMs, 100 * NsPerMs}

BuildersTTL ==
    {[BuilderOf(SourceStrategyCacheFirst, FALSE, TRUE, FALSE) EXCEPT !.delTTL = d] : d \in DelTTLs}

InitTTL ==
    /\ CacheIdle
    /\ b \in BuildersTTL
    /\ AuxIdle

\* wrapper.Set, MSet and the back-fills: the TTL computed for one layer's write,
\* for one write of the run.
StoreWriteTTL(level) ==
    /\ probe = NoProbe
    /\ \E r \in 0..(JitterMs - 1) :
          probe' = [fn |-> "getDelTTL", level |-> level, r |-> r,
                    ttl |-> getDelTTL(cx.cache, level, r)]
    /\ UNCHANGED <<now, b, env, calls, cacheVars, redis, table, lk>>

NextTTL ==
    \/ StoreWriteTTL(1)
    \/ StoreWriteTTL(2)

SpecTTL == InitTTL /\ [][NextTTL]_vars

Second == 1000 * NsPerMs

\* The least whole number of nanoseconds that is not below 1.3 * d.
ScaledUp(d) == (13 * d + 9) \div 10

\* C24 as stated: the TTL passed to L1 lies in [delTTL, delTTL + 1s) and the
\* TTL passed to L2 lies in [1.3 * delTTL, 1.3 * delTTL + 1s).
C24_JitterBound ==
    probe.fn = "getDelTTL" =>
        /\ probe.level = 1 =>
              probe.ttl >= b.delTTL /\ probe.ttl < b.delTTL + Second
        /\ probe.level = 2 =>
              probe.ttl >= ScaledUp(b.delTTL) /\ probe.ttl - Second < ScaledUp(b.delTTL)

\* C24, amended: the TTL passed to L1 lies in [delTTL, delTTL + 1s); the TTL
\* passed to L2 lies above 1.3 * delTTL - 1ns and below 1.3 * delTTL + 1s, the
\* scaled base being truncated to whole nanoseconds.
C24_JitterBoundAmended ==
    probe.fn = "getDelTTL" =>
        /\ probe.level = 1 =>
              probe.ttl >= b.delTTL /\ probe.ttl < b.delTTL + Second
        /\ probe.level = 2 =>
              probe.ttl + 1 >= ScaledUp(b.delTTL) /\ probe.ttl - Second < ScaledUp(b.delTTL)

\* A write to L2 with the largest jitter under a delete-TTL of three nanoseconds.
C24_Witness ==
    /\ probe.fn = "getDelTTL"
    /\ probe.level = 2
    /\ b.delTTL = 3
    /\ probe.r = JitterMs - 1
    /\ probe.ttl = 3 + (JitterMs - 1) * NsPerMs

\* A write to L1 with the largest jitter under 100 ms.
C24_L1Reached ==
    /\ probe.fn = "getDelTTL"
    /\ probe.level = 1
    /\ b.delTTL = 100 * NsPerMs
    /\ probe.ttl = 1099 * NsPerMs

(***************************************************************************)
(* Package dlock: the Redis locker and the database locker.                *)
(* Times are in milliseconds, as the clock is.                             *)
(***************************************************************************)
ErrLockNotAcquired == "lock not acquired"
ErrLockAlreadyHeld == "lock already held"
ErrLockNotHeld == "lock not held"
ErrInvalidTTL == "invalid ttl"
ErrInvalidKey == "invalid lockKey"

\* ctx.Err() of a cancelled context.
ContextCanceled == "context canceled"

\* Keys and TTLs a client may pass; " " is blank and 0 is no TTL.
LockKeys == {"job"}
LockTTLs == {0, 1}
Retries == {-1, 1}

\* strings.TrimSpace on the keys of the model, which hold at most one space.
TrimSpace(k) == IF k = " " THEN "" ELSE k

validateKeyAndTTL(k, ttl) ==
    IF TrimSpace(k) = "" THEN ErrInvalidKey
    ELSE IF ttl <= 0 THEN ErrInvalidTTL
    ELSE ""

\* A Redis key that holds nothing.
NoRecord == [value |-> 0, expireAt |-> 0]

\* GET: the value of a key that is set and not past its expiry, else nil (0).
RedisGet(k) ==
    IF redis[k].value # 0 /\ now <= redis[k].expireAt THEN redis[k].value ELSE 0

\* A cleaning that deletes the rows of the key whatever their expire_time.
cleanAnyLock(k) == {r \in table : r.lock_key # k}

\* The rows of the table that DELETE ... WHERE lock_key = ? AND expire_time < now leaves.
cleanExpiredLock(k) == {r \in table : ~(r.lock_key = k /\ r.expire_time < now)}

\* lockValue(): a UUID no earlier Lock carries.
lockValue == Len(lk.obj) + 1

\* A call of a lock client: its arguments, the loop counter of
\* AcquireWithRetry, the Lock it works on or returns (0 is nil) and its error.
\* Notes: attempts counts the calls of Acquire it made, stored tells whether an
\* Unlock sent a command to the store, late whether the Unlock began after the
\* Lock had been released, asked is the maxRetry the caller passed.
IdleLockOp ==
    [fn |-> "none", key |-> "", ttl |-> 0, maxRetry |-> 0, i |-> 0, lock |-> 0, err |-> "",
     attempts |-> 0, stored |-> FALSE, late |-> FALSE, asked |-> 0]

InitLock(kinds, more) ==
    /\ CacheIdle
    /\ b = DefaultBuilder
    /\ probe = NoProbe
    /\ redis = [k \in LockKeys |-> NoRecord]
    /\ table = {}
    /\ \E kind \in kinds :
          lk = [kind |-> kind, more |-> more,
                pc |-> [p \in AllCallers |-> "idle"],
                op |-> [p \in AllCallers |-> IdleLockOp],
                ctx |-> [p \in AllCallers |-> FALSE],
                obj |-> <<>>]

LockBegin(p) == lk.pc[p] = "idle" /\ calls < MaxOps + lk.more

\* Where a call of Acquire goes first: SetNX, or the cleaning of expired rows.
AttemptPc == IF lk.kind = "redis" THEN "setnx" ELSE "clean"

LockReturn(p, o) == [lk EXCEPT !.pc[p] = "idle", !.op[p] = o]

\* Acquire after its store command: the new Lock, or ErrLockAlreadyHeld, which
\* AcquireWithRetry answers by waiting.  owner and expireAt are notes.
AfterAttempt(p, success, expireAt) ==
    LET o == lk.op[p]
        lock == [lockKey |-> o.key, lockValue |-> lockValue, unlocked |-> FALSE, mu |-> 0,
                 owner |-> p, expireAt |-> expireAt, released |-> FALSE]
    IN  IF success
           THEN [lk EXCEPT !.obj = Append(@, lock), !.pc[p] = "idle",
                           !.op[p] = [o EXCEPT !.lock = Len(lk.obj) + 1, !.err = ""]]
        ELSE IF o.fn = "Acquire"
           THEN LockReturn(p, [o EXCEPT !.err = ErrLockAlreadyHeld])
        ELSE [lk EXCEPT !.pc[p] = "wait"]

Acquire(p, k, ttl) ==
    /\ LockBegin(p)
    /\ calls' = calls + 1
    /\ LET o == [IdleLockOp EXCEPT !.fn = "Acquire", !.key = k, !.ttl = ttl]
       IN  lk' = IF validateKeyAndTTL(k, ttl) # ""
                    THEN LockReturn(p, [o EXCEPT !.err = validateKeyAndTTL(k, ttl)])
                    ELSE [lk EXCEPT !.pc[p] = AttemptPc, !.op[p] = [o EXCEPT !.attempts = 1]]
    /\ UNCHANGED <<now, b, env, cacheVars, probe, redis, table>>

\* A SET without NX: it stores the value whatever the key holds.
SetOverwrite(p) ==
    /\ lk.pc[p] = "setnx"
    /\ LET o == lk.op[p]
       IN  /\ redis' = [redis EXCEPT ![o.key] = [value |-> lockValue, expireAt |-> now + o.ttl]]
           /\ lk' = AfterAttempt(p, TRUE, now + o.ttl)
    /\ UNCHANGED <<now, b, env, calls, cacheVars, probe, table>>

\* SET key value NX PX ttl.
SetNX(p) ==
    /\ lk.pc[p] = "setnx"
    /\ LET o == lk.op[p]
           success == RedisGet(o.key) = 0
       IN  /\ redis' = IF success
                          THEN [redis EXCEPT ![o.key] = [value |-> lockValue, expireAt |-> now + o.ttl]]
                          ELSE redis
           /\ lk' = AfterAttempt(p, success, now + o.ttl)
    /\ UNCHANGED <<now, b, env, calls, cacheVars, probe, table>>

CleanExpired(p) ==
    /\ lk.pc[p] = "clean"
    /\ table' = cleanExpiredLock(lk.op[p].key)
    /\ lk' = [lk EXCEPT !.pc[p] = "create"]
    /\ UNCHANGED <<now, b, env, calls, cacheVars, probe, redis>>

\* INSERT under the unique index on lock_key.
Create(p) ==
    /\ lk.pc[p] = "create"
    /\ LET o == lk.op[p]
           success == \A r \in table : r.lock_key # o.key
       IN  /\ table' = IF success
                          THEN table \cup {[lock_key |-> o.key, lock_value |-> lockValue,
                                            expire_time |-> now + o.ttl]}
                          ELSE table
           /\ lk' = AfterAttempt(p, success, now + o.ttl)
    /\ UNCHANGED <<now, b, env, calls, cacheVars, probe, redis>>

\* An Unlock that goes to the store whatever the flag says.
UnlockAlways(p, id) ==
    /\ LockBegin(p)
    /\ id \in 1..Len(lk.obj)
    /\ lk.obj[id].mu = 0
    /\ calls' = calls + 1
    /\ lk' = [lk EXCEPT !.obj[id].mu = p, !.pc[p] = "unlock",
                        !.op[p] = [IdleLockOp EXCEPT !.fn = "Unlock", !.lock = id,
                                                     !.key = lk.obj[id].lockKey,
                                                     !.late = lk.obj[id].released]]
    /\ UNCHANGED <<now, b, env, cacheVars, probe, redis, table>>

\* Unlock up to its store command: it takes the mutex of the Lock, and returns
\* nil at once when the Lock is marked unlocked.
Unlock(p, id) ==
    /\ LockBegin(p)
    /\ id \in 1..Len(lk.obj)
    /\ lk.obj[id].mu = 0
    /\ calls' = calls + 1
    /\ LET o == [IdleLockOp EXCEPT !.fn = "Unlock", !.lock = id, !.key = lk.obj[id].lockKey,
                                   !.late = lk.obj[id].released]
       IN  lk' = IF lk.obj[id].unlocked
                    THEN LockReturn(p, o)
                    ELSE [lk EXCEPT !.obj[id].mu = p, !.pc[p] = "unlock", !.op[p] = o]
    /\ UNCHANGED <<now, b, env, cacheVars, probe, redis, table>>

\* Unlock from its store command on: the mutex is given back on return.
AfterUnlock(p, result) ==
    LET o == lk.op[p]
    IN  [lk EXCEPT !.pc[p] = "idle",
                   !.op[p] = [o EXCEPT !.stored = TRUE,
                                       !.err = IF result = 0 THEN ErrLockNotHeld ELSE ""],
                   !.obj[o.lock] = [@ EXCEPT !.mu = 0,
                                             !.unlocked = IF result = 0 THEN @ ELSE TRUE,
                                             !.released = IF result = 0 THEN @ ELSE TRUE]]

\* A release that deletes the key whoever set it.
RedisUnlockAnyOwner(p) ==
    /\ lk.pc[p] = "unlock"
    /\ lk.kind = "redis"
    /\ LET l == lk.obj[lk.op[p].lock]
           result == IF RedisGet(l.lockKey) # 0 THEN 1 ELSE 0
       IN  /\ redis' = IF result = 1 THEN [redis EXCEPT ![l.lockKey] = NoRecord] ELSE redis
           /\ lk' = AfterUnlock(p, result)
    /\ UNCHANGED <<now, b, env, calls, cacheVars, probe, table>>

\* The script: DEL when GET gives the value of this Lock, else 0.
RedisUnlock(p) ==
    /\ lk.pc[p] = "unlock"
    /\ lk.kind = "redis"
    /\ LET l == lk.obj[lk.op[p].lock]
           result == IF RedisGet(l.lockKey) = l.lockValue THEN 1 ELSE 0
       IN  /\ redis' = IF result = 1 THEN [redis EXCEPT ![l.lockKey] = NoRecord] ELSE redis
           /\ lk' = AfterUnlock(p, result)
    /\ UNCHANGED <<now, b, env, calls, cacheVars, probe, table>>

\* DELETE ... WHERE lock_key = ? AND lock_value = ?.
DbUnlock(p) ==
    /\ lk.pc[p] = "unlock"
    /\ lk.kind = "db"
    /\ LET l == lk.obj[lk.op[p].lock]
           rows == {r \in table : r.lock_key = l.lockKey /\ r.lock_value = l.lockValue}
       IN  /\ table' = table \ rows
           /\ lk' = AfterUnlock(p, Cardinality(rows))
    /\ UNCHANGED <<now, b, env, calls, cacheVars, probe, redis>>

AcquireWithRetry(p, k, ttl, maxRetry) ==
    /\ LockBegin(p)
    /\ calls' = calls + 1
    /\ LET o == [IdleLockOp EXCEPT !.fn = "AcquireWithRetry", !.key = k, !.ttl = ttl,
                                   !.asked = maxRetry,
                                   !.maxRetry = IF maxRetry < 0 THEN 0 ELSE maxRetry]
       IN  lk' = IF validateKeyAndTTL(k, ttl) # ""
                    THEN LockReturn(p, [o EXCEPT !.err = validateKeyAndTTL(k, ttl)])
                    ELSE [lk EXCEPT !.pc[p] = "top", !.op[p] = o, !.ctx[p] = FALSE]
    /\ UNCHANGED <<now, b, env, cacheVars, probe, redis, table>>

\* A loop that tries once more than it was told to.
RetryTopOnceMore(p) ==
    /\ lk.pc[p] = "top"
    /\ LET o == lk.op[p]
       IN  lk' = IF o.i > o.maxRetry + 1
                    THEN LockReturn(p, [o EXCEPT !.err = ErrLockNotAcquired])
                 ELSE IF lk.ctx[p]
                    THEN LockReturn(p, [o EXCEPT !.err = ContextCanceled])
                 ELSE [lk EXCEPT !.pc[p] = AttemptPc, !.op[p] = [o EXCEPT !.attempts = @ + 1]]
    /\ UNCHANGED <<now, b, env, calls, cacheVars, probe, redis, table>>

\* The head of the loop: i <= maxRetry, the test of ctx.Done(), the call of Acquire.
RetryTop(p) ==
    /\ lk.pc[p] = "top"
    /\ LET o == lk.op[p]
       IN  lk' = IF o.i > o.maxRetry
                    THEN LockReturn(p, [o EXCEPT !.err = ErrLockNotAcquired])
                 ELSE IF lk.ctx[p]
                    THEN LockReturn(p, [o EXCEPT !.err = ContextCanceled])
                 ELSE [lk EXCEPT !.pc[p] = AttemptPc, !.op[p] = [o EXCEPT !.attempts = @ + 1]]
    /\ UNCHANGED <<now, b, env, calls, cacheVars, probe, redis, table>>

\* The wait after a failed attempt ends with the timer: i++.
WaitTimer(p) ==
    /\ lk.pc[p] = "wait"
    /\ lk' = [lk EXCEPT !.pc[p] = "top", !.op[p] = [@ EXCEPT !.i = @ + 1]]
    /\ UNCHANGED <<now, b, env, calls, cacheVars, probe, redis, table>>

\* The wait ends with the context.
WaitDone(p) ==
    /\ lk.pc[p] = "wait"
    /\ lk.ctx[p]
    /\ lk' = LockReturn(p, [lk.op[p] EXCEPT !.err = ContextCanceled])
    /\ UNCHANGED <<now, b, env, calls, cacheVars, probe, redis, table>>

\* The caller cancels the context of a running AcquireWithRetry.
Cancel(p) ==
    /\ lk.pc[p] \in {"top", "setnx", "clean", "create", "wait"}
    /\ lk.op[p].fn = "AcquireWithRetry"
    /\ ~lk.ctx[p]
    /\ lk' = [lk EXCEPT !.ctx[p] = TRUE]
    /\ UNCHANGED <<now, b, env, calls, cacheVars, probe, redis, table>>

CallAcquire == \E p \in AllCallers, k \in LockKeys \cup {" "}, ttl \in LockTTLs : Acquire(p, k, ttl)

CallUnlock == \E p \in AllCallers, id \in 1..Len(lk.obj) : Unlock(p, id)

CallAcquireWithRetry ==
    \E p \in AllCallers, k \in LockKeys, ttl \in LockTTLs, maxRetry \in Retries :
        AcquireWithRetry(p, k, ttl, maxRetry)

NextLock ==
    \/ Tick
    \/ CallAcquire
    \/ CallUnlock
    \/ \E p \in AllCallers : SetNX(p)
    \/ \E p \in AllCallers : CleanExpired(p)
    \/ \E p \in AllCallers : Create(p)
    \/ \E p \in AllCallers : RedisUnlock(p)
    \/ \E p \in AllCallers : DbUnlock(p)

SpecLock == InitLock({"redis", "db"}, 2) /\ [][NextLock]_vars

\* The Locks on a key that are held at time t: not released by an Unlock and
\* not past the expiry they were acquired with.
HoldersIn(l, t, k) ==
    {id \in 1..Len(l.obj) :
        l.obj[id].lockKey = k /\ ~l.obj[id].released /\ t <= l.obj[id].expireAt}

Holders(k) == HoldersIn(lk, now, k)

\* Client p ends a call of fn with this step.
Returns(p, fn) == lk.pc[p] # "idle" /\ lk'.pc[p] = "idle" /\ lk.op[p].fn = fn

\* C25: at every time at most one Lock is held on a key; an Acquire that
\* reaches the store while a Lock is held on its key returns
\* ErrLockAlreadyHeld and no Lock, and one that reaches it while none is held
\* and no record is left returns a Lock - so of the Acquires racing for a free
\* key exactly one wins; the same for the Redis and the database locker.
C25_MutualExclusion ==
    [][\A k \in LockKeys :
          /\ Cardinality(HoldersIn(lk', now', k)) <= 1
          /\ \A p \in AllCallers :
                (Returns(p, "Acquire") /\ lk.op[p].key = k /\ lk.pc[p] \in {"setnx", "create"}) =>
                    /\ Holders(k) # {} =>
                          /\ lk'.op[p].err = ErrLockAlreadyHeld
                          /\ lk'.op[p].lock = 0
                          /\ lk'.obj = lk.obj
                    /\ (Holders(k) = {} /\ RedisGet(k) = 0 /\ \A r \in table : r.lock_key # k) =>
                          /\ lk'.op[p].err = ""
                          /\ HoldersIn(lk', now', k) = {lk'.op[p].lock}
                          /\ lk'.obj[lk'.op[p].lock].owner = p]_vars

\* Both clients called Acquire on the key while it was free; one was given the
\* Lock and holds it, the other was told that the lock is held.
C25_Witness ==
    /\ lk.pc[1] = "idle" /\ lk.pc[2] = "idle"
    /\ lk.op[1].fn = "Acquire" /\ lk.op[2].fn = "Acquire"
    /\ Len(lk.obj) = 1
    /\ Holders("job") = {1}
    /\ \E p \in AllCallers :
          /\ lk.op[p].lock = 1 /\ lk.op[p].err = ""
          /\ lk.op[3 - p].err = ErrLockAlreadyHeld

\* The same under the database locker.
C25_DbReached == C25_Witness /\ lk.kind = "db" /\ Cardinality(table) = 1

\* The lock value the store holds for a key at time t, 0 when it holds none.
StoredIn(l, r, tb, t, k) ==
    IF l.kind = "redis"
       THEN (IF r[k].value # 0 /\ t <= r[k].expireAt THEN r[k].value ELSE 0)
    ELSE IF \E row \in tb : row.lock_key = k
       THEN (CHOOSE row \in tb : row.lock_key = k).lock_value
    ELSE 0

StoredValue(k) == StoredIn(lk, redis, table, now, k)

\* C26: an Unlock that reaches the store removes the record of its key and
\* returns nil when the stored value is the value of its Lock; otherwise it
\* returns ErrLockNotHeld and leaves the store as it is; in both cases every
\* other Lock that is held stays held.
C26_UnlockOwnLock ==
    [][\A p \in AllCallers :
          (Returns(p, "Unlock") /\ lk.pc[p] = "unlock") =>
              LET l == lk.obj[lk.op[p].lock]
              IN  /\ StoredValue(l.lockKey) = l.lockValue =>
                        /\ lk'.op[p].err = ""
                        /\ StoredIn(lk', redis', table', now', l.lockKey) = 0
                  /\ StoredValue(l.lockKey) # l.lockValue =>
                        /\ lk'.op[p].err = ErrLockNotHeld
                        /\ redis' = redis
                        /\ table' = table
                  /\ Holders(l.lockKey) \ {lk.op[p].lock} \subseteq HoldersIn(lk', now', l.lockKey)
                  /\ \A k \in LockKeys \ {l.lockKey} :
                        StoredIn(lk', redis', table', now', k) = StoredValue(k)]_vars

\* The first Lock expired, another client acquired the key, and the Unlock of
\* the first Lock returned ErrLockNotHeld while the second is held and stored.
C26_Witness ==
    \E p \in AllCallers :
       /\ lk.pc[p] = "idle"
       /\ lk.op[p].fn = "Unlock"
       /\ lk.op[p].lock = 1
       /\ lk.op[p].err = ErrLockNotHeld
       /\ Len(lk.obj) = 2
       /\ lk.obj[2].owner # lk.obj[1].owner
       /\ Holders("job") = {2}
       /\ StoredValue("job") = lk.obj[2].lockValue

\* An Unlock removed the record of its own Lock.
C26_ReleasedReached ==
    \E p \in AllCallers :
       /\ lk.pc[p] = "idle"
       /\ lk.op[p].fn = "Unlock" /\ lk.op[p].stored /\ lk.op[p].err = ""
       /\ StoredValue("job") = 0

\* Client p ends an Unlock with this step that it began after an Unlock of the
\* same Lock had returned nil.
LateUnlockEnds(p) ==
    /\ lk'.op[p] # lk.op[p]
    /\ lk'.pc[p] = "idle"
    /\ lk'.op[p].fn = "Unlock"
    /\ lk'.op[p].late

\* C27: an Unlock begun after an Unlock of the same Lock has returned nil
\* returns nil, sends no command to the store and changes neither the store
\* nor any Lock - whoever holds the key by then, and whichever client calls.
C27_UnlockIdempotent ==
    [][\A p \in AllCallers :
          LateUnlockEnds(p) =>
              /\ lk'.op[p].err = ""
              /\ ~lk'.op[p].stored
              /\ redis' = redis
              /\ table' = table
              /\ lk'.obj = lk.obj]_vars

\* A Lock was released, the other client acquired the key, and a further
\* Unlock of the released Lock returned nil while the new Lock is held and
\* stored.
C27_Witness ==
    \E p \in AllCallers :
       /\ lk.pc[p] = "idle"
       /\ lk.op[p].fn = "Unlock" /\ lk.op[p].late /\ lk.op[p].lock = 1
       /\ lk.op[p].err = "" /\ ~lk.op[p].stored
       /\ Len(lk.obj) = 2
       /\ lk.obj[2].owner # lk.obj[1].owner
       /\ Holders("job") = {2}
       /\ StoredValue("job") = lk.obj[2].lockValue

\* The further Unlock came from the client that had not released the Lock.
C27_OtherCallerReached ==
    /\ Len(lk.obj) = 1
    /\ lk.obj[1].released
    /\ lk.op[1].fn = "Unlock" /\ lk.op[1].stored /\ lk.op[1].err = ""
    /\ lk.op[2].fn = "Unlock" /\ lk.op[2].late /\ lk.op[2].err = "" /\ lk.pc[2] = "idle"

\* C28: an Unlock of a Redis Lock that reaches the store after the key has
\* expired there, and before anyone has acquired it again, returns no error.
C28_UnlockExpiredLock ==
    [][\A p \in AllCallers :
          (/\ Returns(p, "Unlock")
           /\ lk.pc[p] = "unlock"
           /\ lk.kind = "redis"
           /\ ~lk.obj[lk.op[p].lock].released
           /\ now > lk.obj[lk.op[p].lock].expireAt
           /\ RedisGet(lk.op[p].key) = 0) =>
              lk'.op[p].err = ""]_vars

\* Client p has been given a new Lock by this step, and the store holds its value.
Acquired(p) ==
    /\ lk'.pc[p] = "idle"
    /\ lk'.op[p].err = ""
    /\ Len(lk'.obj) = Len(lk.obj) + 1
    /\ lk'.op[p].lock = Len(lk'.obj)
    /\ \A id \in 1..Len(lk.obj) : lk.obj[id].lockValue # lk'.obj[Len(lk'.obj)].lockValue
    /\ StoredIn(lk', redis', table', now', lk.op[p].key) = lk'.obj[Len(lk'.obj)].lockValue

\* C29: an Acquire that reaches Redis when the key's record is past its expiry
\* succeeds and stores a new value; the cleaning step of the database locker
\* removes exactly the rows of its key whose expire_time lies before now and no
\* other row, the insert that follows leaves the rows it finds, and it succeeds
\* with a new value when the key has no row.
C29_ExpiryFreesKey ==
    [][\A p \in AllCallers :
          /\ (lk.pc[p] = "setnx" /\ lk'.pc[p] # "setnx" /\ redis[lk.op[p].key].value # 0
                /\ now > redis[lk.op[p].key].expireAt) =>
                 Acquired(p)
          /\ (lk.pc[p] = "clean" /\ lk'.pc[p] # "clean") =>
                 /\ table' \subseteq table
                 /\ \A r \in table :
                       (r \notin table') = (r.lock_key = lk.op[p].key /\ r.expire_time < now)
          /\ (lk.pc[p] = "create" /\ lk'.pc[p] # "create") =>
                 /\ table \subseteq table'
                 /\ (\A r \in table : r.lock_key # lk.op[p].key) => Acquired(p)]_vars

\* Under the database locker, the first Lock was never released, its TTL has
\* passed, and an Acquire of the other client replaced its row by a new one.
C29_Witness ==
    /\ lk.kind = "db"
    /\ Len(lk.obj) = 2
    /\ ~lk.obj[1].released
    /\ lk.obj[1].expireAt < now
    /\ lk.obj[2].owner # lk.obj[1].owner
    /\ \A p \in AllCallers : lk.op[p].fn = "Acquire" /\ lk.pc[p] = "idle"
    /\ table = {[lock_key |-> "job", lock_value |-> lk.obj[2].lockValue,
                 expire_time |-> lk.obj[2].expireAt]}

\* The same under the Redis locker.
C29_RedisReached ==
    /\ lk.kind = "redis"
    /\ Len(lk.obj) = 2
    /\ ~lk.obj[1].released
    /\ lk.obj[1].expireAt < now
    /\ \A p \in AllCallers : lk.op[p].fn = "Acquire" /\ lk.pc[p] = "idle"
    /\ RedisGet("job") = lk.obj[2].lockValue

\* The steps a call of AcquireWithRetry of client p takes by itself.
RetryProgress(p) ==
    /\ lk.op[p].fn = "AcquireWithRetry"
    /\ \/ RetryTop(p)
       \/ SetNX(p)
       \/ CleanExpired(p)
       \/ Create(p)
       \/ WaitTimer(p)

NextRetry ==
    \/ Tick
    \/ \E p \in AllCallers, k \in LockKeys : Acquire(p, k, 1)
    \/ CallUnlock
    \/ CallAcquireWithRetry
    \/ \E p \in AllCallers : SetNX(p)
    \/ \E p \in AllCallers : CleanExpired(p)
    \/ \E p \in AllCallers : Create(p)
    \/ \E p \in AllCallers : RedisUnlock(p)
    \/ \E p \in AllCallers : DbUnlock(p)
    \/ \E p \in AllCallers : RetryTop(p)
    \/ \E p \in AllCallers : WaitTimer(p)
    \/ \E p \in AllCallers : WaitDone(p)
    \/ \E p \in AllCallers : Cancel(p)

SpecRetry == InitLock({"redis", "db"}, 0) /\ [][NextRetry]_vars

\* The attempts AcquireWithRetry may make when called with this maxRetry.
MaxAttempts(o) == (IF o.asked < 0 THEN 0 ELSE o.asked) + 1

Retrying(p) == lk.op[p].fn = "AcquireWithRetry" /\ lk.pc[p] # "idle"

\* What one step may do to a call of AcquireWithRetry of client p.
RetryStepOk(p) ==
    /\ lk'.op[p].fn = "AcquireWithRetry" => lk'.op[p].attempts <= MaxAttempts(lk'.op[p])
    /\ (Retrying(p) /\ lk.pc[p] \in {"setnx", "create"} /\ lk'.pc[p] # lk.pc[p]) =>
          \/ Acquired(p)
          \/ lk'.pc[p] = "wait" /\ lk'.obj = lk.obj
    /\ (Retrying(p) /\ lk.ctx[p] /\ lk.pc[p] \in {"top", "wait"}) =>
          /\ lk'.op[p].attempts = lk.op[p].attempts
          /\ lk'.pc[p] \in {"top", "wait", "idle"}
          /\ (lk.pc[p] = "top" /\ lk'.pc[p] # "top" /\ lk.op[p].attempts < MaxAttempts(lk.op[p])) =>
                lk'.pc[p] = "idle" /\ lk'.op[p].err = ContextCanceled
    /\ Returns(p, "AcquireWithRetry") =>
          \/ lk'.op[p].err = "" /\ Acquired(p)
          \/ /\ lk'.op[p].err = ErrLockNotAcquired
             /\ lk.op[p].attempts = MaxAttempts(lk.op[p])
             /\ lk'.op[p].attempts = lk.op[p].attempts
             /\ lk'.op[p].lock = 0
             /\ lk'.obj = lk.obj
          \/ /\ lk'.op[p].err = ContextCanceled
             /\ lk.ctx[p]
             /\ lk'.op[p].attempts = lk.op[p].attempts
             /\ lk'.op[p].lock = 0
             /\ lk'.obj = lk.obj

\* How far a call of AcquireWithRetry is from its return: five per iteration
\* of the loop that is left, less what the current iteration has done.
Rank(l, p) ==
    LET o == l.op[p]
        left == 5 * (o.maxRetry + 1 - o.i)
    IN  IF l.pc[p] = "top" THEN left + 5
        ELSE IF l.pc[p] = "clean" THEN left + 4
        ELSE IF l.pc[p] \in {"setnx", "create"} THEN left + 3
        ELSE IF l.pc[p] = "wait" THEN left + 1
        ELSE 0

\* C30: a call of AcquireWithRetry makes at most max(maxRetry, 0) + 1 attempts
\* and returns - it can always take a step, and each of its steps brings it
\* nearer to its return; it returns the Lock of an attempt as soon as one
\* succeeds, ErrLockNotAcquired only after that many failed attempts, and the
\* context's error, with no attempt made after it finds the context cancelled,
\* otherwise.
C30_RetryTerminates ==
    [][\A p \in AllCallers :
          /\ RetryStepOk(p)
          /\ Retrying(p) =>
                /\ ENABLED RetryProgress(p)
                /\ Rank(lk, p) > 0
                /\ (lk'.pc[p] # lk.pc[p] \/ lk'.op[p] # lk.op[p]) => Rank(lk', p) < Rank(lk, p)]_vars

\* AcquireWithRetry with maxRetry = 1 failed once while the key was held and
\* was given the Lock by its second attempt, after the first Lock had expired.
C30_Witness ==
    \E p \in AllCallers :
       /\ lk.pc[p] = "idle"
       /\ lk.op[p].fn = "AcquireWithRetry"
       /\ lk.op[p].asked = 1
       /\ lk.op[p].attempts = 2
       /\ lk.op[p].err = ""
       /\ lk.op[p].lock = 2
       /\ Holders("job") = {2}

\* Every attempt of a call with a negative maxRetry failed: one attempt.
C30_NotAcquiredReached ==
    \E p \in AllCallers :
       /\ lk.pc[p] = "idle"
       /\ lk.op[p].fn = "AcquireWithRetry"
       /\ lk.op[p].asked = -1
       /\ lk.op[p].attempts = 1
       /\ lk.op[p].err = ErrLockNotAcquired

\* The context was cancelled while the call waited, with an attempt left.
C30_CanceledReached ==
    \E p \in AllCallers :
       /\ lk.pc[p] = "idle"
       /\ lk.op[p].fn = "AcquireWithRetry"
       /\ lk.op[p].asked = 1
       /\ lk.op[p].attempts = 1
       /\ lk.op[p].err = ContextCanceled

(***************************************************************************)
(* SpecWrapper: one caller reads key "a" with Get and the keys "a", "b"    *)
(* with MGet, under CacheOnly or under ExpiredBackup with a loader that    *)
(* fails, from stores that hold what earlier Sets, loads and peers left:   *)
(* per layer and key nothing, or an envelope created up to 3 ms before the *)
(* run starts, with the facade's expiry of 1 ms or (L2, written through a  *)
(* facade built with no expiry) none.  L1 holds the value 97, L2 the value *)
(* 98.  Nothing but the reads touches the stores; the run keeps each       *)
(* call's previous call.                                                   *)
(***************************************************************************)
EnvWrapper ==
    [callers |-> {1}, keys |-> {"a"}, lists |-> {<<"a", "b">>},
     values |-> {}, results |-> {LoaderErr},
     short |-> FALSE, derived |-> {},
     faults |-> FALSE, history |-> TRUE, more |-> 0]

BuildersWrapper ==
    {BuilderOf(ss, FALSE, TRUE, FALSE) :
        ss \in {SourceStrategyCacheOnly, SourceStrategyExpiredBackup}}

\* The frames a store may hold under one key: none, or that of an envelope
\* of value v with one of the given pairs of creation instant and expiry.
InitFrames(v, es) == {NoFrame} \cup {Serialize(newEntry(v, e[2], e[1])) : e \in es}

InitStores(v, ea, eb) ==
    {[EmptyStore EXCEPT !["default:a"] = fa, !["default:b"] = fb] :
        fa \in InitFrames(v, ea), fb \in InitFrames(v, eb)}

InitWrapper ==
    /\ now = 0
    /\ l1 \in InitStores(97, {-2, 0} \X {NsPerMs}, {})
    /\ l2 \in InitStores(98, ({-3, 0} \X {NsPerMs}) \cup {<<-3, 0>>}, {0} \X {NsPerMs})
    /\ b \in BuildersWrapper
    /\ env = EnvWrapper
    /\ pc = [p \in EnvWrapper.callers |-> "idle"]
    /\ op = [p \in EnvWrapper.callers |-> IdleOp]
    /\ calls = 0
    /\ flights = {}
    /\ loads = [k \in UserKeys |-> 0]
    /\ AuxIdle

NextWrapper ==
    \/ Tick
    \/ CallGet
    \/ CallMGet
    \/ GetSteps
    \/ MGetSteps
    \/ LoaderSteps
    \/ FanoutSteps

SpecWrapper == InitWrapper /\ [][NextWrapper]_vars

\* The envelope a store holds under k, nil when it holds none.
HeldIn(store, k) == IF store[k] = NoFrame THEN NilEntry ELSE deserializeEntry(store[k])

\* Caller p leaves the position n with this step.
Leaves(p, n) == pc[p] = n /\ pc'[p] # n

\* C31: back-fill.  A Get that found no non-expired envelope in L1 reads L2;
\* when L2 holds a non-expired envelope the Get writes the frame L2 holds -
\* the same createAt, ttl and payload - under the key to L1, once, with the
\* delete-TTL of level 1, and wrapper.Get returns that envelope; when L2
\* holds none or an expired one the Get leaves L1 as it is; no other step of
\* a Get writes to L1.
C31_Backfill ==
    [][\A p \in env.callers :
          LET o == op[p]
              k == key(o.cx, o.key)
              h2 == HeldIn(l2, k)
          IN /\ Leaves(p, "readL2") =>
                   /\ ~NotExpiredAt(HeldIn(l1, k), now)
                   /\ l1' = l1
                   /\ op'[p].fromL2 = h2
                   /\ pc'[p] = "backfill" <=> NotExpiredAt(h2, now)
             /\ Leaves(p, "backfill") =>
                   /\ ~o.backfilled /\ o.levels = <<>>
                   /\ l1' = [l1 EXCEPT ![k] = l2[k]]
                   /\ HeldIn(l1', k).createAt = o.fromL2.createAt
                   /\ HeldIn(l1', k).ttl = o.fromL2.ttl
                   /\ HeldIn(l1', k).valBytes = o.fromL2.valBytes
                   /\ op'[p].backfilled /\ op'[p].levels = <<1>>
                   /\ pc'[p] = "check"
                   /\ op'[p].fromCache = h2
             /\ (o.kind = "Get" /\ pc'[p] # pc[p] /\ l1' # l1) => pc[p] = "backfill"]_vars

\* wrapper.Get has returned the non-expired envelope of L2 after writing it
\* over the expired envelope L1 held.
C31_Witness ==
    \E p \in env.callers :
       LET o == op[p]
           k == key(o.cx, o.key)
       IN /\ pc[p] = "check" /\ o.kind = "Get"
          /\ o.fromL1.ptr /\ o.fromL1.val = NilVal /\ Value(o.fromL1) = 97
          /\ o.backfilled /\ o.levels = <<1>>
          /\ l1[k] = l2[k] /\ l1[k] # NoFrame
          /\ o.fromCache = HeldIn(l2, k) /\ Value(o.fromCache) = 98

\* wrapper.Get has found an expired envelope in L2 and left the empty L1 empty.
C31_NotWrittenReached ==
    \E p \in env.callers :
       LET o == op[p]
           k == key(o.cx, o.key)
       IN /\ pc[p] = "check" /\ o.kind = "Get"
          /\ o.reads = <<"l1", "l2">> /\ o.fromL2.ptr /\ ~o.backfilled
          /\ l1[k] = NoFrame /\ l2[k] # NoFrame

\* C32: when neither layer holds a non-expired envelope for the key,
\* wrapper.Get reads both layers, writes nothing and returns the envelope
\* with the greater createAt if both layers hold one, the only envelope if
\* one layer holds one, nil if neither does; what it returns is the stored
\* envelope as it is, expired.
C32_LatestOfStale ==
    [][\A p \in env.callers :
          LET o == op[p]
              k == key(o.cx, o.key)
              h1 == HeldIn(l1, k)
              h2 == HeldIn(l2, k)
              r == op'[p].fromCache
          IN /\ (Leaves(p, "readL1") /\ ~NotExpiredAt(h1, now)) => pc'[p] = "readL2"
             /\ (Leaves(p, "readL2") /\ ~NotExpiredAt(h1, now) /\ ~NotExpiredAt(h2, now)) =>
                   /\ pc'[p] = "check"
                   /\ l1' = l1 /\ l2' = l2
                   /\ (h1.ptr /\ h2.ptr /\ h1.createAt > h2.createAt) => r = h1
                   /\ (h1.ptr /\ h2.ptr /\ h2.createAt > h1.createAt) => r = h2
                   /\ (h1.ptr /\ h2.ptr) => r \in {h1, h2}
                   /\ (h1.ptr /\ ~h2.ptr) => r = h1
                   /\ (~h1.ptr /\ h2.ptr) => r = h2
                   /\ (~h1.ptr /\ ~h2.ptr) => ~r.ptr
                   /\ r.ptr => ~NotExpiredAt(r, now)]_vars

\* Both layers hold an expired envelope, L1 the newer one, and wrapper.Get
\* has returned that of L1.
C32_Witness ==
    \E p \in env.callers :
       LET o == op[p]
       IN /\ pc[p] = "check" /\ o.kind = "Get"
          /\ o.fromL1.ptr /\ o.fromL2.ptr
          /\ o.fromL1.createAt > o.fromL2.createAt
          /\ o.fromCache = o.fromL1 /\ Value(o.fromCache) = 97
          /\ ~NotExpiredAt(o.fromCache, now)
          /\ ~o.backfilled

\* Only L2 holds an envelope, an expired one, and wrapper.Get has returned it.
C32_OnlyL2Reached ==
    \E p \in env.callers :
       LET o == op[p]
       IN /\ pc[p] = "check" /\ o.kind = "Get"
          /\ o.reads = <<"l1", "l2">> /\ ~o.fromL1.ptr /\ o.fromL2.ptr
          /\ o.fromCache = o.fromL2 /\ IsExpired(o.fromCache, now)

\* Neither layer holds an envelope and wrapper.Get has returned nil.
C32_NullReached ==
    \E p \in env.callers :
       LET o == op[p]
       IN /\ pc[p] = "check" /\ o.kind = "Get"
          /\ o.reads = <<"l1", "l2">> /\ ~o.fromL1.ptr /\ ~o.fromL2.ptr
          /\ ~o.fromCache.ptr

\* r is the envelope to read from layers that hold e1 (L1) and e2 (L2) at
\* time t: e1 if it is not expired, otherwise e2 if that is not expired,
\* otherwise the newer of the two, or nil.
IsChosen(r, e1, e2, t) ==
    IF NotExpiredAt(e1, t) THEN r = e1
    ELSE IF NotExpiredAt(e2, t) THEN r = e2
    ELSE IF e1.ptr /\ e2.ptr
       THEN /\ r \in {e1, e2}
            /\ e1.createAt > e2.createAt => r = e1
            /\ e2.createAt > e1.createAt => r = e2
    ELSE IF e1.ptr THEN r = e1
    ELSE IF e2.ptr THEN r = e2
    ELSE ~r.ptr

\* C33: for every key, wrapper.MGet yields the L1 envelope if it is not
\* expired, otherwise the L2 envelope if that is not expired, otherwise the
\* newer of the two stale envelopes or nil, as wrapper.Get does for the key
\* on the same store contents (both taken with the clock where it stood
\* when the call read L1).
C33_MGetAsGet ==
    \A p \in env.callers :
       LET o == op[p]
       IN /\ (pc[p] = "mcheck" /\ o.readAt = now) =>
                \A i \in DOMAIN o.keys :
                   LET k == key(o.cx, o.keys[i])
                   IN IsChosen(o.mcache[k], MapGet(o.mfromL1, k), HeldIn(l2, k), now)
          /\ (pc[p] = "check" /\ o.kind = "Get" /\ o.readAt = now) =>
                IsChosen(o.fromCache, o.fromL1, HeldIn(l2, key(o.cx, o.key)), now)

\* No layer holds a non-expired envelope under k at time t.
StaleIn(s1, s2, t, k) == ~NotExpiredAt(HeldIn(s1, k), t) /\ ~NotExpiredAt(HeldIn(s2, k), t)

\* C39: reads never extend a logical lifetime.  No step of a Get or an MGet
\* whose load does not succeed changes L2, and what it writes to L1 under a
\* key is the frame L2 holds under that key, createAt and ttl included; once
\* no layer holds a non-expired envelope for a key that stays so, and no Get
\* or MGet that tests the cache after that finds a fresh envelope for it.
C39_ReadsNeverExtend ==
    [][/\ l2' = l2
       /\ \A k \in StoreKeys :
             l1'[k] # l1[k] =>
                /\ l1'[k] = l2[k]
                /\ HeldIn(l1', k).createAt = HeldIn(l2, k).createAt
                /\ HeldIn(l1', k).ttl = HeldIn(l2, k).ttl
       /\ \A k \in StoreKeys :
             (l1' # l1 \/ now' # now) =>
                (StaleIn(l1, l2, now, k) => StaleIn(l1', l2', now', k))
       /\ \A p \in env.callers :
             LET k == key(op[p].cx, op[p].key)
             IN (Leaves(p, "check") /\ StaleIn(l1, l2, now, k)) => ~op'[p].hit
       /\ \A p \in env.callers :
             Leaves(p, "mcheck") =>
                \A k \in Range(keys(op[p].cx, op[p].keys)) :
                   StaleIn(l1, l2, now, k) => k \notin DOMAIN op'[p].mhit]_vars

\* An MGet has back-filled L1 and returned; then the envelopes expired in
\* both layers and a further MGet of the keys, which found them so, has
\* returned as well.
C39_Witness ==
    \E p \in env.callers :
       LET o == op[p]
       IN /\ pc[p] = "done" /\ o.kind = "MGet"
          /\ o.prev.kind = "MGet" /\ o.prev.backfilled
          /\ l1["default:a"] = l2["default:a"] /\ l1["default:a"] # NoFrame
          /\ StaleIn(l1, l2, o.readAt, "default:a")
          /\ DOMAIN o.mhit = {}

\* A Get under ExpiredBackup has returned the expired envelope after its
\* load failed, and the stores hold what they held.
C39_GetReached ==
    \E p \in env.callers :
       LET o == op[p]
       IN /\ GotUnder(p, SourceStrategyExpiredBackup)
          /\ o.invoked /\ o.loadErr # "" /\ ~o.hit
          /\ o.fromCache.ptr /\ o.res # NilVal
          /\ StaleIn(l1, l2, now, key(o.cx, o.key))

(***************************************************************************)
(* SpecShared: two callers call Get and MGet concurrently, on a SourceOnly *)
(* facade built with a point loader or with a batch loader and on the      *)
(* facade WithSourceStrategy derives from it; the MGet callers list the    *)
(* same two keys in either order.                                          *)
(***************************************************************************)
EnvShared ==
    [callers |-> AllCallers, keys |-> {"a"}, lists |-> {<<"a", "b">>, <<"b", "a">>},
     values |-> {}, results |-> {LoaderOk(98)},
     short |-> FALSE, derived |-> {SourceStrategySourceOnly},
     faults |-> FALSE, history |-> FALSE, more |-> 0]

BuildersShared ==
    {BuilderOf(SourceStrategySourceOnly, FALSE, TRUE, FALSE),
     BuilderOf(SourceStrategySourceOnly, FALSE, FALSE, TRUE)}

InitShared == InitState(BuildersShared, EnvShared)

NextShared ==
    \/ CallGet
    \/ CallMGet
    \/ LoaderSteps
    \/ MLoaderSteps
    \/ FanoutSteps

SpecShared == InitShared /\ [][NextShared]_vars

\* The invocations of the point loader in flight for the storage key k.
PointLoads(k) == {f \in flights : f.grp[2] = "group" /\ f.key = k}

\* C34: at any time at most one invocation of the point loader is in flight
\* for a given namespaced key - across concurrent Get callers, the per-key
\* loads of the MGet fan-out, and callers that go through a facade obtained
\* from WithSourceStrategy.
C34_OneLoadInFlight ==
    \A k \in StoreKeys : Cardinality(PointLoads(k)) <= 1

\* The same with the facade obtained from WithSourceStrategy left aside:
\* among the loads of any one facade at most one is in flight per key.
C34_OnePerFacade ==
    \A k \in StoreKeys : \A f, g \in PointLoads(k) : f.grp = g.grp => f = g

\* A Get and the task of a fan-out, on one facade, share one invocation.
C34_SharedReached ==
    \E p, q \in env.callers :
       /\ pc[p] = "waiting" /\ pc[q] = "fanout"
       /\ \E i \in DOMAIN op[q].tasks : op[q].tasks[i].st = "loading" /\ op[p].waitOn = <<q, i>>
       /\ Cardinality(PointLoads(key(cx, op[p].key))) = 1

\* The keys the batch loader was invoked with for the flight f.
BatchOf(f) == Range(op[f.leader[1]].toLoad)

\* C35: two concurrent batch loads that request the same set of keys share
\* one invocation of the multiLoader, in whichever order each lists the keys:
\* on one facade no two invocations for the same set of keys are in flight.
C35_OrderFreeSharing ==
    \A f, g \in flights :
       (f.grp[2] = "mGroup" /\ g.grp = f.grp /\ BatchOf(f) = BatchOf(g)) => f = g

\* Two batch loads that list the keys in the same order share one invocation.
C35_SameOrderReached ==
    \E p, q \in env.callers :
       /\ pc[p] = "mloading" /\ pc[q] = "mwaiting" /\ op[q].waitOn = <<p, 0>>
       /\ op[p].cx = op[q].cx /\ op[p].toLoad = op[q].toLoad /\ Len(op[p].toLoad) = 2

(***************************************************************************)
(* SpecCancel: two callers call Get for one key on a SourceOnly facade     *)
(* with a point loader, the clock advances, and the context of a call in   *)
(* progress may be cancelled at any moment.                                *)
(***************************************************************************)
\* The context the caller p passed to its call is cancelled. load hands the
\* context to the loader inside the closure only the leader runs (impl.go
\* line 146-147) and c.group.Do takes no context: nothing else reads it.
CancelCtx(p) ==
    /\ pc[p] \notin {"idle", "done"}
    /\ ~op[p].ctxDone
    /\ op' = [op EXCEPT ![p].ctxDone = TRUE]
    /\ UNCHANGED <<now, l1, l2, b, env, aux, pc, calls, flights, loads>>

EnvCancel ==
    [callers |-> AllCallers, keys |-> {"a"}, lists |-> {}, values |-> {},
     results |-> {LoaderOk(98), LoaderErr},
     short |-> FALSE, derived |-> {}, faults |-> FALSE, history |-> FALSE, more |-> 0]

BuildersCancel == {BuilderOf(SourceStrategySourceOnly, FALSE, TRUE, FALSE)}

InitCancel == InitState(BuildersCancel, EnvCancel)

NextCancel ==
    \/ Tick
    \/ CallGet
    \/ LoaderSteps
    \/ \E p \in env.callers : CancelCtx(p)

SpecCancel == InitCancel /\ [][NextCancel]_vars

\* The callers waiting for the return of the flight f.
Followers(f) == {q \in env.callers : pc[q] = "waiting" /\ op[q].waitOn = f.leader}

\* What a Get that has returned gave its caller: the value and the error.
Outcome(o) == <<o.res, o.err>>

\* C36: every caller that joins a point load in flight receives the outcome
\* the leader's loader call produced; cancelling the context of a follower
\* neither cancels the leader's call nor changes it. When the leader's call
\* returns, the leader and every follower - cancelled or not - return with
\* the same envelope, value and error; a cancellation of a follower leaves
\* the flight, the leader and what its loader may still return as they were.
C36_FollowersShare ==
    [][
       /\ \A f \in flights \ flights' :
             LET p == f.leader[1]
             IN /\ pc'[p] = "done" /\ op'[p].flight = f
                /\ \A q \in Followers(f) :
                      /\ pc'[q] = "done" /\ op'[q].flight = f
                      /\ op'[q].fromSource = op'[p].fromSource
                      /\ op'[q].loadErr = op'[p].loadErr
                      /\ Outcome(op'[q]) = Outcome(op'[p])
       /\ \A g \in flights : \A q \in Followers(g) :
             op'[q].ctxDone # op[q].ctxDone =>
                /\ g \in flights'
                /\ pc'[g.leader[1]] = "loading"
                /\ op'[g.leader[1]] = op[g.leader[1]]
                /\ pc'[q] = "waiting"
       /\ \A h \in flights : \A r \in env.results : ENABLED LoaderReturn(h, r)
      ]_vars

\* A follower whose context was cancelled while it waited has returned the
\* value the leader's call loaded.
C36_Witness ==
    \E p, q \in env.callers :
       /\ p # q /\ pc[p] = "done" /\ pc[q] = "done"
       /\ op[p].invoked /\ op[q].joined /\ op[q].ctxDone /\ ~op[p].ctxDone
       /\ op[q].flight = op[p].flight /\ op[p].flight.leader = <<p, 0>>
       /\ op[q].err = "" /\ op[q].res = op[p].res /\ op[q].res # NilVal

\* The same for a leader's call that failed.
C36_ErrorReached ==
    \E p, q \in env.callers :
       /\ p # q /\ pc[p] = "done" /\ pc[q] = "done"
       /\ op[p].invoked /\ op[q].joined /\ op[q].ctxDone
       /\ op[q].flight = op[p].flight /\ op[p].flight.leader = <<p, 0>>
       /\ op[q].err = LoaderErr.err /\ op[p].err = LoaderErr.err

(***************************************************************************)
(* SpecPanic: one caller calls MGet for two keys on a CacheFirst facade    *)
(* built with a point loader only; each call of the loader returns a       *)
(* value, returns an error or panics, a peer sets one of the keys in L2    *)
(* and the clock advances.                                                 *)
(***************************************************************************)
EnvPanic ==
    [callers |-> {1}, keys |-> {"a"}, lists |-> {<<"a", "b">>}, values |-> {97},
     results |-> {LoaderOk(98), LoaderErr, LoaderPanic},
     short |-> FALSE, derived |-> {}, faults |-> FALSE, history |-> FALSE, more |-> 0]

BuildersPanic == {BuilderOf(SourceStrategyCacheFirst, FALSE, TRUE, FALSE)}

InitPanic == InitState(BuildersPanic, EnvPanic)

NextPanic ==
    \/ Tick
    \/ \E u \in env.keys, v \in env.values : PeerSetL2(key(cx, u), v)
    \/ CallMGet
    \/ MGetSteps
    \/ FanoutSteps
    \/ LoaderSteps
    \/ MSetSteps

SpecPanic == InitPanic /\ [][NextPanic]_vars

\* The tasks of the fan-out of o that failed.
FailedTasks(o) == {i \in DOMAIN o.tasks : o.tasks[i].st = "err"}

\* The error the fan-out makes of a loader's error or panic.
TaskErrors == {LoaderErr.err, "loader fn err: panic:boom"}

\* C37: with only a point loader configured, a batch load in which a per-key
\* load returned an error or panicked returns an error and no partial
\* result; a panic is turned into an error that carries the recovered value
\* and does not reach the caller; the MGet under CacheFirst that made the
\* load returns that error and writes nothing to the cache.
C37_FanoutFailure ==
    [][\A p \in env.callers :
          /\ (pc'[p] = "done" /\ op'[p].kind = "MGet") => op'[p].err # "panic"
          /\ \A i \in DOMAIN op'[p].tasks :
                op'[p].tasks[i].st = "err" => op'[p].tasks[i].err \in TaskErrors
          /\ (pc[p] = "fanout" /\ pc'[p] # "fanout" /\ FailedTasks(op[p]) # {}) =>
                /\ pc'[p] = "done"
                /\ op'[p].err \in {op[p].tasks[i].err : i \in FailedTasks(op[p])}
                /\ op'[p].mres = <<>> /\ op'[p].msrc = EmptyMap
                /\ l1' = l1 /\ l2' = l2
                /\ op'[p].tried = op[p].tried /\ op'[p].wrote = op[p].wrote
      ]_vars

\* An MGet has returned the error made of a panic although the load of its
\* other key succeeded, and the cache does not hold that key.
C37_Witness ==
    \E p \in env.callers :
       /\ MGotUnder(p, {SourceStrategyCacheFirst})
       /\ op[p].err = "loader fn err: panic:boom" /\ op[p].mres = <<>>
       /\ \E i, j \in DOMAIN op[p].tasks :
             /\ op[p].tasks[i].st = "err" /\ op[p].tasks[j].st = "ok"
             /\ l1[key(op[p].cx, op[p].tasks[j].key)] = NoFrame
             /\ l2[key(op[p].cx, op[p].tasks[j].key)] = NoFrame

\* The same for a loader that returned an error.
C37_ErrorReached ==
    \E p \in env.callers :
       /\ MGotUnder(p, {SourceStrategyCacheFirst})
       /\ op[p].err = LoaderErr.err /\ op[p].mres = <<>>
       /\ \E i, j \in DOMAIN op[p].tasks :
             op[p].tasks[i].st = "err" /\ op[p].tasks[j].st = "ok"

(***************************************************************************)
(* SpecSetTTL: the two delete-TTLs one call of wrapper.Set or wrapper.MSet *)
(* computes, first for L2 and then for L1, each with a jitter of its own.  *)
(***************************************************************************)
\* wrapper.Set (wrapper.go line 105-106) and wrapper.MSet (line 129-130):
\* w.getDelTTL(2) for the write to L2, then w.getDelTTL(1) for the write to
\* L1; r2 and r1 are what rand.Int63n(1000) returned to the two calls, here
\* the least, the greatest and two more.
SetTTLs(fn) ==
    /\ probe = NoProbe
    /\ \E r2, r1 \in {0, 1, JitterMs \div 2, JitterMs - 1} :
          probe' = [fn |-> fn, r2 |-> r2, r1 |-> r1,
                    l2 |-> getDelTTL(cx.cache, 2, r2),
                    l1 |-> getDelTTL(cx.cache, 1, r1)]
    /\ UNCHANGED <<now, b, env, calls, cacheVars, redis, table, lk>>

NextSetTTL ==
    \/ SetTTLs("Set")
    \/ SetTTLs("MSet")

SpecSetTTL == InitTTL /\ [][NextSetTTL]_vars

\* C38: for every Set or MSet call and every configured delTTL >= 0, the
\* delete-TTL used for the write to L2 is strictly greater than the delete-TTL
\* used for the write to L1 of the same call.
C38_L2OutlivesL1 ==
    probe.fn \in {"Set", "MSet"} => probe.l2 > probe.l1

\* Under equal jitters and a delete-TTL of at least four nanoseconds the L2
\* write does get the greater TTL.
C38_GreaterReached ==
    /\ probe.fn = "Set"
    /\ b.delTTL = 100 * NsPerMs
    /\ probe.r2 = probe.r1
    /\ probe.l2 = probe.l1 + 30 * NsPerMs

\* C40: for each key and each layer, the createAt of the stored envelope
\* never decreases, under any interleaving of concurrent calls: no step of a
\* run replaces the envelope a layer holds for a key by an older one.
C40_CreateAtMonotone ==
    [][\A k \in StoreKeys :
          /\ (l1'[k] # l1[k] /\ HeldIn(l1, k).ptr /\ HeldIn(l1', k).ptr) =>
                HeldIn(l1', k).createAt >= HeldIn(l1, k).createAt
          /\ (l2'[k] # l2[k] /\ HeldIn(l2, k).ptr /\ HeldIn(l2', k).ptr) =>
                HeldIn(l2', k).createAt >= HeldIn(l2, k).createAt
      ]_vars

\* Two Gets have each loaded and written the key, the one that loaded first
\* writing last.
C40_BothWroteReached ==
    \E p, q \in env.callers :
       /\ p # q /\ pc[p] = "done" /\ pc[q] = "done"
       /\ op[p].invoked /\ op[q].invoked
       /\ op[p].fromSource.ptr /\ op[q].fromSource.ptr
       /\ op[p].fromSource.createAt < op[q].fromSource.createAt
       /\ <<"l2", key(cx, "a")>> \in op[p].wrote /\ <<"l2", key(cx, "a")>> \in op[q].wrote
       /\ HeldIn(l2, key(cx, "a")).createAt = op[p].fromSource.createAt

=============================================================================
